---- MODULE Spec2Model ----
(***************************************************************************)
(* secwebscan: reconciliation of nmap entries (plugins/nmap.py), the       *)
(* collector that persists them (core/collector.py), the plugin runner     *)
(* (core/plugin_runner.py) and the per-capability scan fan-out             *)
(* (plugins/nmap.py, plugins/nikto.py).                                    *)
(*                                                                         *)
(* Strings.  A field value such as state or product is a TLA+ string; the  *)
(* few Python string operations applied to it are tables over the values   *)
(* the model uses (Strip).  A free text (script_output) is a sequence of   *)
(* lines, "\n".join(lines); a line is a sequence of words, " ".join(words);*)
(* the empty text "" is << >>, the text "-" is << <<"-">> >>, a blank line *)
(* is << >>.  A source string is the sequence of its "+"-separated labels, *)
(* so "domain_http+ip_tcp" is <<"domain_http", "ip_tcp">> and "" is <<"">>.*)
(***************************************************************************)
EXTENDS Integers, Sequences, FiniteSets, TLC

VARIABLES
    temp_files,    \* collector: the artifacts of one capability, in index order
    pc,            \* position of the modelled run
    parsed_lists,  \* collector: parse() results gathered so far
    merged,        \* nmap.merge_entries: the dict, as <<key, entry>> pairs in insertion order
    pos,           \* nmap.merge_entries: entries of the flattened input consumed so far
    results,       \* collector: rows to insert for the capability
    rows,          \* collector: rows inserted into the results table
    total_added,   \* collector: counter returned by process_temp_files
    config,        \* scan_config and the capability manifests / level sub-sections
    tasks,         \* one record per task of the running fan-out
    outcome,       \* how the fan-out returned to its caller
    artifacts,     \* the artifact records a plugin's scan returned
    index          \* the artifact index file at the path start.py passes on

vars == <<temp_files, pc, parsed_lists, merged, pos, results, rows, total_added,
          config, tasks, outcome, artifacts, index>>

\* ---------------------------------------------------------------- bounds
MaxFiles == 3
MaxEntries == 3
MaxPlugins == 2
MaxVariants == 3
MaxHosts == 2
MaxLines == 2

\* ------------------------------------------------------- generic helpers
Range(s) == {s[i] : i \in 1..Len(s)}

RECURSIVE Flatten(_)
Flatten(ss) == IF ss = << >> THEN << >> ELSE Head(ss) \o Flatten(Tail(ss))

RECURSIVE SeqSum(_)
SeqSum(s) == IF s = << >> THEN 0 ELSE Head(s) + SeqSum(Tail(s))

\* list(dict.fromkeys(lines)): first occurrences, order kept
RECURSIVE Dedupe(_)
Dedupe(s) ==
    IF s = << >> THEN << >>
    ELSE LET init == Dedupe(SubSeq(s, 1, Len(s) - 1))
             last == s[Len(s)]
         IN IF last \in Range(init) THEN init ELSE Append(init, last)

\* sorted(S) for a finite set S of strings, by the rank function rank
RECURSIVE SortSet(_, _)
SortSet(S, rank) ==
    IF S = {} THEN << >>
    ELSE LET m == CHOOSE x \in S : \A y \in S : rank[x] <= rank[y]
         IN <<m>> \o SortSet(S \ {m}, rank)

\* all orders of the elements of S
RECURSIVE Perms(_)
Perms(S) ==
    IF S = {} THEN {<< >>}
    ELSE UNION {{<<x>> \o p : p \in Perms(S \ {x})} : x \in S}

\* ------------------------------------------------ strings: field values
\* str.strip() on the field values of the model: the padded values and what is left of them
Strip(v) ==
    CASE v = "OpenSSH " -> "OpenSSH"
      [] v = " "        -> ""
      [] OTHER          -> v

DigitChar == <<"0", "1", "2", "3", "4", "5", "6", "7", "8", "9">>

\* str(port) for a port number >= 0, as its sequence of decimal digits
RECURSIVE PortStr(_)
PortStr(n) ==
    IF n < 10 THEN <<DigitChar[n + 1]>>
    ELSE PortStr(n \div 10) \o <<DigitChar[(n % 10) + 1]>>

\* ----------------------------------------------------- strings: free text
EmptyText == << << >> >>
DashText == << <<"-">> >>

\* the one-line text holding the single word w ("" for the empty word)
TextOf(w) == IF w = "" THEN EmptyText ELSE << <<w>> >>

RECURSIVE DropBlankHead(_)
DropBlankHead(t) ==
    IF t = << >> THEN << >>
    ELSE IF Head(t) = << >> THEN DropBlankHead(Tail(t)) ELSE t

RECURSIVE DropBlankTail(_)
DropBlankTail(t) ==
    IF t = << >> THEN << >>
    ELSE IF t[Len(t)] = << >> THEN DropBlankTail(SubSeq(t, 1, Len(t) - 1)) ELSE t

\* text.strip(): the blank lines at both ends go (lines carry no padding of their own)
TextStrip(t) ==
    LET r == DropBlankTail(DropBlankHead(t))
    IN IF r = << >> THEN EmptyText ELSE r

\* "\n\n".join(texts), texts not empty
RECURSIVE JoinBlank(_)
JoinBlank(ts) ==
    IF Len(ts) = 1 THEN ts[1]
    ELSE ts[1] \o << << >> >> \o JoinBlank(Tail(ts))

\* the keywords of format_script_output that occur inside one word (case as the code
\* tests it: "vulnerab" is looked up in the lower-cased line)
WordKeys(w) ==
    CASE w = "SSH-2.0-OpenSSH_8.2"  -> {"SSH"}
      [] w = "[SSH"                 -> {"SSH"}
      [] w = "[FTP"                 -> {"FTP"}
      [] w = "FTP"                  -> {"FTP"}
      [] w = "vsFTPd"               -> {"FTP"}
      [] w = "TLSv1.2:"             -> {"TLSv1."}
      [] w = "TLSv1.2"              -> {"TLSv1."}
      [] w = "TLSv1.3:"             -> {"TLSv1.", "TLSv1.3"}
      [] w = "TLSv1.3"              -> {"TLSv1.", "TLSv1.3"}
      [] w = "TLS_RSA_WITH_AES"     -> {"TLS_"}
      [] w = "TLS_AKE_WITH_AES"     -> {"TLS_", "TLS_AKE_"}
      [] w = "Subject:"             -> {"Subject:"}
      [] w = "Valid:"               -> {"Valid:"}
      [] w = "Issuer:"              -> {"Issuer:"}
      [] w = "MD5:"                 -> {"MD5:"}
      [] w = "SHA-1:"               -> {"SHA-1:"}
      [] w = "FourOhFourRequest"    -> {"FourOhFourRequest", "Request"}
      [] w = "HTTPRequest"          -> {"Request"}
      [] w = "OPTIONS"              -> {"OPTIONS"}
      [] w = "CVE-2014-0160"        -> {"CVE-"}
      [] w = "CVE-2021-41773"       -> {"CVE-"}
      [] w = "VULNERABLE:"          -> {"vulnerab"}
      [] w = "[Vulnerabilities]"    -> {"vulnerab"}
      [] OTHER                      -> {}

\* key in line, for a keyword without a blank
HasKey(line, key) == \E i \in 1..Len(line) : key \in WordKeys(line[i])

\* key in line, for a keyword of several words: the words follow each other in the line
HasPhrase(line, phrase) ==
    \E i \in 1..Len(line) :
        /\ i + Len(phrase) - 1 <= Len(line)
        /\ \A j \in 1..Len(phrase) : line[i + j - 1] = phrase[j]

\* line.strip().strip(":"): word.strip(":") at the left and at the right end of the line
StripColons(line) ==
    IF line = << >> THEN line
    ELSE LET LStripColon(w) == w
             RStripColon(w) ==
                 CASE w = "TLSv1.2:" -> "TLSv1.2"
                   [] w = "TLSv1.3:" -> "TLSv1.3"
                   [] OTHER          -> w
             l1 == <<LStripColon(line[1])>> \o Tail(line)
         IN SubSeq(l1, 1, Len(l1) - 1) \o <<RStripColon(l1[Len(l1)])>>

\* f"- {line}"
Dashed(line) == <<"-">> \o line

\* word.startswith("CVE-")
StartsCVE(w) == w \in {"CVE-2014-0160", "CVE-2021-41773"}

\* string order of the CVE words (none is a prefix of another)
CveRank == [w \in {"CVE-2014-0160", "CVE-2021-41773"} |->
               IF w = "CVE-2014-0160" THEN 1 ELSE 2]

\* the word "(xN)" that follows a CVE counted N > 1 times
CountWord(n) ==
    CASE n = 2 -> "(x2)"
      [] n = 3 -> "(x3)"
      [] OTHER -> "(xN)"

\* key in line, key given as its sequence of words
LineHas(line, phrase) ==
    IF Len(phrase) = 1 THEN HasKey(line, phrase[1]) ELSE HasPhrase(line, phrase)

HasTlsVersion(line) == HasKey(line, "TLSv1.") \/ HasKey(line, "TLSv1.3")

\* the loop that fills tls_lines; "\n" + version is a blank line and the version line
RECURSIVE TlsLines(_)
TlsLines(lines) ==
    IF lines = << >> THEN << >>
    ELSE LET line == Head(lines)
             here == IF HasTlsVersion(line) THEN << << >>, StripColons(line) >>
                     ELSE IF HasKey(line, "TLS_") \/ HasKey(line, "TLS_AKE_")
                          THEN << Dashed(line) >>
                          ELSE << >>
         IN here \o TlsLines(Tail(lines))

CertKeys ==
    << <<"Subject:">>, <<"Subject", "Alternative", "Name">>, <<"Issuer:">>,
       <<"Public", "Key">>, <<"Signature", "Algorithm">>, <<"Not", "valid">>,
       <<"MD5:">>, <<"SHA-1:">> >>

RECURSIVE CertLines(_, _)
CertLines(keys, lines) ==
    IF keys = << >> THEN << >>
    ELSE LET Keep(l) == LineHas(l, Head(keys))
         IN SelectSeq(lines, Keep) \o CertLines(Tail(keys), lines)

\* number of occurrences of x in the sequence s
RECURSIVE Count(_, _)
Count(x, s) ==
    IF s = << >> THEN 0
    ELSE (IF Head(s) = x THEN 1 ELSE 0) + Count(x, Tail(s))

IsVulnLine(l) == HasKey(l, "CVE-") \/ HasKey(l, "vulnerab")

\* counted_cves: the CVE words of the vulnerability lines, counted and sorted
CountedCves(vuln_lines) ==
    LET words == Flatten(vuln_lines)
        cves == SelectSeq(words, StartsCVE)
        sorted == SortSet(Range(cves), CveRank)
    IN [i \in 1..Len(sorted) |->
           IF Count(sorted[i], cves) > 1
           THEN <<sorted[i], CountWord(Count(sorted[i], cves))>>
           ELSE <<sorted[i]>>]

\* nmap.format_script_output
format_script_output(raw) ==
    LET r == TextStrip(raw)
    IN IF r = DashText \/ r = EmptyText THEN DashText
       ELSE
       LET KeepLine(l) == l # << >> /\ l # <<"-">>
           unique_lines == Dedupe(SelectSeq(r, KeepLine))
           AnyLine(P(_)) == \E i \in 1..Len(unique_lines) : P(unique_lines[i])
           tls_lines == TlsLines(unique_lines)
           tls == IF AnyLine(HasTlsVersion) /\ tls_lines # << >>
                  THEN << << <<"[TLS", "Cipher", "Support]">> >> \o tls_lines >>
                  ELSE << >>
           IsCert(l) == HasKey(l, "Subject:") \/ HasKey(l, "Valid:")
           cert == IF AnyLine(IsCert)
                   THEN << << <<"[Cert", "Info]">> >> \o CertLines(CertKeys, unique_lines) >>
                   ELSE << >>
           IsFtp(l) == HasKey(l, "FTP") \/ HasPhrase(l, <<"Anonymous", "FTP", "login", "allowed">>)
           HasFtp(l) == HasKey(l, "FTP")
           ftp == IF AnyLine(IsFtp)
                  THEN << << <<"[FTP", "Info]">> >> \o SelectSeq(unique_lines, HasFtp) >>
                  ELSE << >>
           HasSsh(l) == HasKey(l, "SSH")
           ssh == IF AnyLine(HasSsh)
                  THEN << << <<"[SSH", "Info]">> >> \o SelectSeq(unique_lines, HasSsh) >>
                  ELSE << >>
           IsHttp(l) == HasPhrase(l, <<"/nice", "ports">>) \/ HasKey(l, "FourOhFourRequest")
           HttpKeep(l) == HasKey(l, "FourOhFourRequest") \/ HasKey(l, "Request")
                            \/ HasKey(l, "OPTIONS")
           http_kept == SelectSeq(unique_lines, HttpKeep)
           http == IF AnyLine(IsHttp)
                   THEN << << <<"[HTTP", "Response", "Patterns]">> >>
                           \o [i \in 1..Len(http_kept) |-> Dashed(http_kept[i])] >>
                   ELSE << >>
           vuln_lines == SelectSeq(unique_lines, IsVulnLine)
           vuln == IF AnyLine(IsVulnLine)
                   THEN << << <<"[Vulnerabilities]">> >> \o CountedCves(vuln_lines)
                           \o vuln_lines >>
                   ELSE << >>
           sections == tls \o cert \o ftp \o ssh \o http \o vuln
       IN IF sections # << >> THEN TextStrip(JoinBlank(sections))
          ELSE IF unique_lines = << >> THEN EmptyText ELSE unique_lines

\* ------------------------------------------------------- nmap: entries
\* nmap.get_important_fields
get_important_fields ==
    <<"port", "protocol", "state", "reason", "service_name", "product", "version",
      "extra", "cpe", "script_output">>

\* str(entry.get(k, "-")).strip(): digits for the port, a text for script_output, a
\* string for the other fields
FieldStr(e, k) ==
    CASE k = "port"          -> PortStr(e.port)
      [] k = "script_output" -> TextStrip(e.script_output)
      [] OTHER               -> Strip(e[k])

\* v in ["-", "", "None", "null"], v the stripped value of field k
InEmptyList(k, v) ==
    CASE k = "port"          -> FALSE
      [] k = "script_output" -> v \in {TextOf(w) : w \in {"-", "", "None", "null"}}
      [] OTHER               -> v \in {"-", "", "None", "null"}

\* merge_entries.is_empty: every important field, as a stripped string, is in
\* ["-", "", "null", "None", "0"]
is_empty(entry) ==
    \A i \in 1..Len(get_important_fields) :
        LET k == get_important_fields[i]
            v == FieldStr(entry, k)
        IN CASE k = "port"          -> v = <<"0">>
             [] k = "script_output" -> v \in {TextOf(w) : w \in {"-", "", "null", "None", "0"}}
             [] OTHER               -> v \in {"-", "", "null", "None", "0"}

\* the labels a source string is made of, in string order
SortedLabels ==
    <<"", "Both", "Domain", "Http", "Https", "IP", "domain_http", "domain_https",
      "ip_http", "ip_tcp", "network_tcp", "unknown">>

LabelRank == [t \in Range(SortedLabels) |-> CHOOSE i \in 1..Len(SortedLabels) : SortedLabels[i] = t]

\* a merge_sources that joins the two source strings as they come, unsorted
merge_sources_unsorted(a, b) == Dedupe(a \o b)

\* nmap.merge_sources
merge_sources(a, b) == SortSet(Range(a) \cup Range(b), LabelRank)

\* the comparison loop of merge_entries: every important field equal after strip, or
\* both values in the empty list
Identical(entry, existing) ==
    \A i \in 1..Len(get_important_fields) :
        LET k == get_important_fields[i]
            v1 == FieldStr(entry, k)
            v2 == FieldStr(existing, k)
        IN (InEmptyList(k, v1) /\ InEmptyList(k, v2)) \/ v1 = v2

\* (entry.get("port"), entry.get("protocol"), entry.get("service_name"))
MergeKey(entry) == <<entry.port, entry.protocol, entry.service_name>>

\* key in merged
InDict(m, key) == \E i \in 1..Len(m) : m[i].key = key

\* merged[key]
DictGet(m, key) == m[CHOOSE i \in 1..Len(m) : m[i].key = key].val

\* merged[key] = val: a present key keeps its place, a new key goes last
DictSet(m, key, val) ==
    IF InDict(m, key)
    THEN [i \in 1..Len(m) |-> IF m[i].key = key THEN [key |-> key, val |-> val] ELSE m[i]]
    ELSE Append(m, [key |-> key, val |-> val])

\* a duplicate branch that lets the later entry's source replace the earlier one's
MergeIntoLastSource(existing, entry, flip) ==
    LET pair == IF flip THEN <<entry.script_output, existing.script_output>>
                ELSE <<existing.script_output, entry.script_output>>
        NotEmpty(t) == t # EmptyText
        kept == SelectSeq(pair, NotEmpty)
    IN IF entry.script_output # existing.script_output
       THEN [existing EXCEPT !.source = entry.source,
                             !.script_output = format_script_output(JoinBlank(kept))]
       ELSE [existing EXCEPT !.source = entry.source]

\* the duplicate branch of merge_entries: the sources are united and differing script
\* outputs are joined and formatted again; flip is the iteration order of the two-element
\* set of texts
MergeInto(existing, entry, flip) ==
    LET src == merge_sources(existing.source, entry.source)
        pair == IF flip THEN <<entry.script_output, existing.script_output>>
                ELSE <<existing.script_output, entry.script_output>>
        NotEmpty(t) == t # EmptyText
        kept == SelectSeq(pair, NotEmpty)
    IN IF entry.script_output # existing.script_output
       THEN [existing EXCEPT !.source = src,
                             !.script_output = format_script_output(JoinBlank(kept))]
       ELSE [existing EXCEPT !.source = src]

\* the conflict branch of merge_entries: the entry goes under key + (entry["source"],)
StoreConflict(m, entry) == DictSet(m, MergeKey(entry) \o <<entry.source>>, entry)

\* one iteration of the loops of merge_entries
MergeOne(m, entry, flip) ==
    IF is_empty(entry) THEN m
    ELSE LET key == MergeKey(entry)
         IN IF InDict(m, key)
            THEN LET existing == DictGet(m, key)
                 IN IF Identical(entry, existing)
                    THEN DictSet(m, key, MergeInto(existing, entry, flip))
                    ELSE StoreConflict(m, entry)
            ELSE DictSet(m, key, entry)

RECURSIVE MergeFold(_, _, _)
MergeFold(m, entries, flip) ==
    IF entries = << >> THEN m
    ELSE MergeFold(MergeOne(m, Head(entries), flip), Tail(entries), flip)

\* list(merged.values())
DictValues(m) == [i \in 1..Len(m) |-> m[i].val]

\* nmap.merge_entries(*entry_lists)
merge_entries(entry_lists, flip) == DictValues(MergeFold(<< >>, Flatten(entry_lists), flip))

\* ------------------------------------------------------- nmap: parse
\* nmap.parse: one entry per port element of the first host, the script output formatted,
\* the source label of the call on every entry
ParsePort(port_el, source_label) ==
    [port          |-> port_el.portid,
     protocol      |-> port_el.protocol,
     state         |-> port_el.state,
     reason        |-> port_el.reason,
     service_name  |-> port_el.name,
     product       |-> port_el.product,
     version       |-> port_el.version,
     extra         |-> port_el.extrainfo,
     cpe           |-> port_el.cpe,
     script_output |-> format_script_output(port_el.raw_output),
     source        |-> <<source_label>>]

parse(artifact, source_label) ==
    IF artifact.hosts = << >> THEN << >>
    ELSE LET ports == artifact.hosts[1]
         IN [i \in 1..Len(ports) |-> ParsePort(ports[i], source_label)]

\* ------------------------------------------------------- collector
\* a meaningless list that lacks "0"
InMeaninglessListNoZero(k, v) == InEmptyList(k, v)

\* is_meaningful_entry's list ["-", "", "None", "null", "0"], for the stripped value v of
\* field k
InMeaninglessList(k, v) ==
    CASE k = "port"          -> v = <<"0">>
      [] k = "script_output" -> v \in {TextOf(w) : w \in {"-", "", "None", "null", "0"}}
      [] OTHER               -> v \in {"-", "", "None", "null", "0"}

\* collector.is_meaningful_entry
is_meaningful_entry(entry, important_fields) ==
    ~ \A i \in 1..Len(important_fields) :
          InMeaninglessList(important_fields[i], FieldStr(entry, important_fields[i]))

\* the target of the first loop over merged_data (source_map and the "+" case, with
\* "Http" in source or "Https" in source tested on the whole source string)
TargetFirstLoop(source, ip_target, domain_target) ==
    IF Len(source) > 1
    THEN (IF \E i \in 1..Len(source) : source[i] \in {"Http", "Https"}
          THEN domain_target ELSE ip_target)
    ELSE CASE source = <<"IP">>    -> ip_target
           [] source = <<"Http">>  -> domain_target
           [] source = <<"Https">> -> domain_target
           [] OTHER                -> "unknown"

\* the target of the second loop over merged_data
TargetSecondLoop(source, ip_target, domain_target) ==
    IF source = <<"IP">> THEN ip_target
    ELSE IF source \in {<<"Domain">>, <<"Both">>} THEN domain_target
    ELSE "unknown"

\* the target of the branch without merge_entries
TargetPassThrough(label, ip_target, domain_target) ==
    IF label = "IP" THEN ip_target ELSE domain_target

\* the entry with its "target" key set
WithTarget(entry, target) == [data |-> entry, target |-> target]

\* [d for d in data if not important_fields or is_meaningful_entry(d, important_fields)]
Meaningful(items) ==
    LET Keep(item) == get_important_fields = << >>
                        \/ is_meaningful_entry(item.data, get_important_fields)
    IN SelectSeq(items, Keep)

\* the first loop of the merge branch: target by source, meaningful entries appended
FirstLoop(merged_data, ip_target, domain_target) ==
    Meaningful([i \in 1..Len(merged_data) |->
        WithTarget(merged_data[i],
                   TargetFirstLoop(merged_data[i].source, ip_target, domain_target))])

\* the second loop of the merge branch: it assigns the target of every merged entry again
\* (the rows already in results are the same objects) and appends the meaningful ones
SecondLoop(res, merged_data, ip_target, domain_target) ==
    LET Retarget(item) ==
            WithTarget(item.data, TargetSecondLoop(item.data.source, ip_target, domain_target))
    IN [i \in 1..Len(res) |-> Retarget(res[i])]
       \o Meaningful([i \in 1..Len(merged_data) |->
              WithTarget(merged_data[i],
                         TargetSecondLoop(merged_data[i].source, ip_target, domain_target))])

\* the branch for a capability without merge_entries or with a single artifact
PassThroughFile(f, ip_target, domain_target) ==
    LET parsed == parse(f, f.source)
    IN Meaningful([i \in 1..Len(parsed) |->
           WithTarget(parsed[i], TargetPassThrough(f.source, ip_target, domain_target))])

\* ------------------------------------------------------- inputs
\* the port elements an nmap artifact of the model may hold
PortOpenSsh ==
    [portid |-> 22, protocol |-> "tcp", state |-> "open", reason |-> "syn-ack",
     name |-> "ssh", product |-> "OpenSSH", version |-> "-", extrainfo |-> "-",
     cpe |-> "-", raw_output |-> DashText]

\* the same finding as PortOpenSsh, written with padding, "" for "-" and a script that
\* printed "null"
PortOpenSshAlt ==
    [PortOpenSsh EXCEPT !.product = "OpenSSH ", !.version = "", !.raw_output = TextOf("null")]

PortFilteredSsh ==
    [PortOpenSsh EXCEPT !.state = "filtered", !.reason = "no-response", !.product = "-"]

PortClosedSsh ==
    [PortOpenSsh EXCEPT !.state = "closed", !.reason = "reset", !.product = "-"]

PortOpenHttp ==
    [PortOpenSsh EXCEPT !.portid = 80, !.name = "http", !.product = "-"]

\* a port element without attributes: every important field is "-", "", "0" or 0
PortBlank ==
    [portid |-> 0, protocol |-> "-", state |-> "-", reason |-> "",
     name |-> "-", product |-> "-", version |-> "0", extrainfo |-> "-",
     cpe |-> "-", raw_output |-> DashText]

PortPool ==
    {PortOpenSsh, PortOpenSshAlt, PortFilteredSsh, PortClosedSsh, PortOpenHttp, PortBlank}

\* the source labels nmap.scan gives its artifacts in the model
ScanLabels == {"ip_tcp", "domain_http", "domain_https"}

\* the nmap artifacts with 1..n port elements and a source label of L, and the artifacts
\* that are not well-formed XML (nothing can be read from them)
Artifacts(n, L) ==
    UNION {{[plugin |-> "nmap", source |-> l, hosts |-> <<p>>, wellformed |-> TRUE] :
               l \in L, p \in [1..k -> PortPool]} : k \in 1..n}
    \cup {[plugin |-> "nmap", source |-> l, hosts |-> << >>, wellformed |-> FALSE] : l \in L}

\* nmap.parse raises RuntimeError: ET.parse (or anything after it) raised
ParseRaises(artifact) == ~artifact.wellformed

\* scan_config of the collector's run
IpTarget == "10.0.0.5"
DomainTarget == "example.org"

\* the index file does not exist: start.main names a fresh path for every run
NoIndex == [exists |-> FALSE, paths |-> << >>]

\* a row an earlier run of the scanner left in the results table
StoredRow ==
    [target |-> DomainTarget, plugin |-> "nmap",
     data |-> ParsePort(PortOpenHttp, "domain_http")]

\* the results table before start.main: empty, or holding the rows of an earlier run
StoredRows == {<< >>, <<StoredRow>>}

\* ------------------------------------------------------- collector run
\* Init: start.main has called purge_database (scan_config.clear_db is set) and the
\* collector process starts. With the database up the purge emptied the results table;
\* with the database down the purge failed, run_command logged it and main went on, so
\* the table still holds what it held. process_temp_files starts with an empty group
\* for the capability
Init ==
    /\ temp_files = << >>
    /\ pc = "connect"
    /\ parsed_lists = << >>
    /\ merged = << >>
    /\ pos = 0
    /\ results = << >>
    /\ total_added = 0
    /\ config \in {[target_ip |-> IpTarget, target_domain |-> DomainTarget, db_up |-> up,
                     clear_db |-> TRUE] : up \in BOOLEAN}
    /\ rows \in IF config.db_up THEN {<< >>} ELSE StoredRows
    /\ tasks = << >>
    /\ outcome = "none"
    /\ artifacts = << >>
    /\ index = [exists |-> TRUE, paths |-> << >>]

\* collector.purge_results inside collect's connection: DELETE FROM results, committed
\* when collect leaves its with block
purge_results(table) == << >>

\* start.purge_database: with scan_config.clear_db it runs collector.py --purge-only, i.e.
\* collect(purge_only=True): connect_to_db, purge_results, return; without a connection
\* that process ends with exit(1), run_command logs it and main goes on; without the
\* flag nothing is run
PurgeDatabase ==
    /\ pc = "purge"
    /\ rows' = IF config.clear_db /\ config.db_up THEN purge_results(rows) ELSE rows
    /\ pc' = "connect"
    /\ UNCHANGED <<temp_files, parsed_lists, merged, pos, results, total_added, config,
                   tasks, outcome, artifacts, index>>

\* populate_db.main, run on its own before a scan: with proxy_management.purge_on_start
\* it calls purge (connect, DELETE FROM results, commit); connect raises without a
\* database and the table stays as it is
PopulateDbMain ==
    /\ pc = "purge"
    /\ \E purge_on_start \in BOOLEAN :
           rows' = IF purge_on_start /\ config.db_up THEN << >> ELSE rows
    /\ UNCHANGED <<temp_files, pc, parsed_lists, merged, pos, results, total_added, config,
                   tasks, outcome, artifacts, index>>

\* collect: connect_to_db; without a connection the collector ends with exit(1)
ConnectDb ==
    /\ pc = "connect"
    /\ IF config.db_up
       THEN pc' = "group" /\ outcome' = outcome
       ELSE pc' = "done" /\ outcome' = "exit_1"
    /\ UNCHANGED <<temp_files, parsed_lists, merged, pos, results, rows, total_added, config,
                   tasks, artifacts, index>>

\* a parse call of the capability raises; the except clause of process_temp_files logs
\* it and goes on to the next capability
AnyParseRaises == \E i \in 1..Len(temp_files) : ParseRaises(temp_files[i])

\* source labels of the artifacts grouped so far
LabelsGrouped == {temp_files[i].source : i \in 1..Len(temp_files)}

\* process_temp_files, grouping loop: the next record of the artifact index joins the
\* capability's files (at most max_files artifacts with max_entries port elements in
\* all); nmap.scan labels each artifact by its own sub-section, so the labels of one
\* capability differ; the runs of the model hold at most one artifact that is not
\* well-formed, the last of its capability
GroupNext(max_files, max_entries) ==
    /\ pc = "group"
    /\ Len(temp_files) < max_files
    /\ ~AnyParseRaises
    /\ LET PortsGrouped ==
               SeqSum([i \in 1..Len(temp_files) |->
                          IF temp_files[i].hosts = << >> THEN 0
                          ELSE Len(temp_files[i].hosts[1])])
       IN \E a \in Artifacts(max_entries - PortsGrouped, ScanLabels \ LabelsGrouped) :
              temp_files' = Append(temp_files, a)
    /\ UNCHANGED <<pc, parsed_lists, merged, pos, results, rows, total_added, config, tasks,
                   outcome, artifacts, index>>

GroupFile == GroupNext(MaxFiles, MaxEntries)

\* hasattr(plugin_parser, "merge_entries") and len(files) > 1
UseMerge == Len(temp_files) > 1

\* the entries merge_entries iterates over, in order
MergeInput == Flatten(parsed_lists)

\* process_temp_files, merge branch: parse of every artifact of the capability
ParseFiles ==
    /\ pc = "group" /\ UseMerge
    /\ IF AnyParseRaises
       THEN parsed_lists' = parsed_lists /\ pc' = "done"
       ELSE /\ parsed_lists' = [i \in 1..Len(temp_files) |->
                                  parse(temp_files[i], temp_files[i].source)]
            /\ pc' = "merge"
    /\ UNCHANGED <<temp_files, merged, pos, results, rows, total_added, config, tasks, outcome, artifacts, index>>

\* the caller's lists after one iteration of merge_entries on entry. merged[key] = entry
\* stores the object of the caller's list, not a copy, so the record under a plain key
\* is the first non-empty entry of that key in the concatenated lists; the duplicate
\* branch writes source and script_output of existing in place, and that entry of the
\* lists then reads as the record of the dictionary m_after
WrittenInPlace(lists, m, m_after, entry) ==
    LET key == MergeKey(entry)
        entries == Flatten(lists)
        stored == CHOOSE p \in 1..Len(entries) :
                      /\ ~is_empty(entries[p]) /\ MergeKey(entries[p]) = key
                      /\ \A q \in 1..(p - 1) :
                             is_empty(entries[q]) \/ MergeKey(entries[q]) # key
        Before(a) == SeqSum([i \in 1..(a - 1) |-> Len(lists[i])])
    IN IF ~is_empty(entry) /\ InDict(m, key) /\ Identical(entry, DictGet(m, key))
       THEN [a \in 1..Len(lists) |->
                [b \in 1..Len(lists[a]) |->
                    IF Before(a) + b = stored THEN DictGet(m_after, key)
                    ELSE lists[a][b]]]
       ELSE lists

\* merge_entries: one iteration of its loops
MergeStep ==
    /\ pc = "merge"
    /\ pos < Len(MergeInput)
    /\ \E flip \in BOOLEAN : merged' = MergeOne(merged, MergeInput[pos + 1], flip)
    /\ parsed_lists' = WrittenInPlace(parsed_lists, merged, merged', MergeInput[pos + 1])
    /\ pos' = pos + 1
    /\ UNCHANGED <<temp_files, pc, results, rows, total_added, config, tasks,
                   outcome, artifacts, index>>

\* merge_entries returns list(merged.values()); the collector's first loop follows
MergeReturn ==
    /\ pc = "merge"
    /\ pos = Len(MergeInput)
    /\ results' = FirstLoop(DictValues(merged), config.target_ip, config.target_domain)
    /\ pc' = "second_loop"
    /\ UNCHANGED <<temp_files, parsed_lists, merged, pos, rows, total_added, config, tasks,
                   outcome, artifacts, index>>

\* the collector's second loop over merged_data; an empty results list ends the capability
SecondLoopStep ==
    /\ pc = "second_loop"
    /\ results' = SecondLoop(results, DictValues(merged), config.target_ip,
                             config.target_domain)
    /\ pc' = IF results' = << >> THEN "done" ELSE "insert"
    /\ UNCHANGED <<temp_files, parsed_lists, merged, pos, rows, total_added, config, tasks,
                   outcome, artifacts, index>>

\* process_temp_files without merge: every artifact parsed, targeted and filtered
\* (collect returns early on an empty list of artifacts)
PassThrough ==
    /\ pc = "group" /\ ~UseMerge
    /\ temp_files # << >>
    /\ results' = IF AnyParseRaises THEN << >>
                  ELSE Flatten([i \in 1..Len(temp_files) |->
                           PassThroughFile(temp_files[i], config.target_ip,
                                           config.target_domain)])
    /\ pc' = IF results' = << >> THEN "done" ELSE "insert"
    /\ UNCHANGED <<temp_files, parsed_lists, merged, pos, rows, total_added, config, tasks,
                   outcome, artifacts, index>>

\* the row of one INSERT INTO results
RowOf(item) == [target |-> item.target, plugin |-> "nmap", data |-> item.data]

\* the insert loop over results (every statement succeeds): one INSERT per item, the
\* rows already in the table stay
InsertRows ==
    /\ pc = "insert"
    /\ rows' = rows \o [i \in 1..Len(results) |-> RowOf(results[i])]
    /\ total_added' = total_added + Len(results)
    /\ pc' = "done"
    /\ UNCHANGED <<temp_files, parsed_lists, merged, pos, results, config, tasks, outcome, artifacts, index>>

\* a collect that treats an empty list of artifacts as fatal and ends with exit(1)
CollectEmptyFails ==
    /\ pc = "group"
    /\ temp_files = << >>
    /\ pc' = "done"
    /\ outcome' = "exit_1"
    /\ UNCHANGED <<temp_files, parsed_lists, merged, pos, results, rows, total_added, config,
                   tasks, artifacts, index>>

\* collect with an empty list of artifacts: it logs that no list was given and returns
CollectEmpty ==
    /\ pc = "group"
    /\ temp_files = << >>
    /\ pc' = "done"
    /\ UNCHANGED <<temp_files, parsed_lists, merged, pos, results, rows, total_added, config,
                   tasks, outcome, artifacts, index>>

\* the collector process has ended (with code 0 unless it called exit(1));
\* start.run_collector logs a non-zero code and returns, main goes on to generate_reports
RunCollectorReturn ==
    /\ pc = "done"
    /\ outcome' = IF outcome = "exit_1" THEN "exit_1" ELSE "exit_0"
    /\ pc' = "reports"
    /\ UNCHANGED <<temp_files, parsed_lists, merged, pos, results, rows, total_added, config,
                   tasks, artifacts, index>>

Next ==
    \/ ConnectDb
    \/ GroupFile \/ ParseFiles \/ MergeStep \/ MergeReturn \/ SecondLoopStep
    \/ PassThrough \/ InsertRows
    \/ CollectEmpty
    \/ RunCollectorReturn

Spec == Init /\ [][Next]_vars

\* ------------------------------------------------------- the results table over a run
\* artifacts and port elements of a run that starts on a table with stored rows
MaxTableFiles == 2
MaxTableEntries == 2

\* InitTable: start.main is about to call purge_database; the table is empty or holds
\* the rows of an earlier run
InitTable ==
    /\ temp_files = << >>
    /\ pc = "purge"
    /\ parsed_lists = << >>
    /\ merged = << >>
    /\ pos = 0
    /\ results = << >>
    /\ rows \in StoredRows
    /\ total_added = 0
    /\ config \in {[target_ip |-> IpTarget, target_domain |-> DomainTarget, db_up |-> up,
                     clear_db |-> clear] : up \in BOOLEAN, clear \in BOOLEAN}
    /\ tasks = << >>
    /\ outcome = "none"
    /\ artifacts = << >>
    /\ index = [exists |-> TRUE, paths |-> << >>]

\* purge_database, then the collector run of start.main; populate_db.main before it
NextTable ==
    \/ PurgeDatabase \/ PopulateDbMain
    \/ ConnectDb
    \/ GroupNext(MaxTableFiles, MaxTableEntries) \/ ParseFiles \/ MergeStep \/ MergeReturn \/ SecondLoopStep
    \/ PassThrough \/ InsertRows
    \/ CollectEmpty
    \/ RunCollectorReturn

SpecTable == InitTable /\ [][NextTable]_vars

\* ------------------------------------------------------- reconciliation claims
\* the rows this run of the collector inserted: the last total_added rows of the table
InsertedRows == SubSeq(rows, Len(rows) - total_added + 1, Len(rows))

\* merge_entries has returned in this run of the collector
Merged == pc \in {"second_loop", "insert", "done"} /\ parsed_lists # << >>

\* the entry lists as parse returned them for the artifacts of the run: the arguments
\* of merge_entries before it wrote to their entries
EntryLists == [i \in 1..Len(temp_files) |-> parse(temp_files[i], temp_files[i].source)]

\* the entries parse returns for the artifacts of the run
ParsedEntries == Flatten(EntryLists)

\* the list merge_entries returned
Output == DictValues(merged)

\* the output record o stands for the input entry e: equal in every important field (up
\* to the empty values) and carrying e's source labels
StandsFor(o, e) == Identical(e, o) /\ Range(e.source) \subseteq Range(o.source)

\* two input entries of one merge key that differ in an important field
Conflicting(e1, e2) ==
    /\ ~is_empty(e1) /\ ~is_empty(e2)
    /\ MergeKey(e1) = MergeKey(e2)
    /\ ~Identical(e1, e2)

\* C1: whenever two non-empty input entries share the merge key and differ in an
\* important field, both are in the output of merge_entries as distinct records, each
\* with its own source; no conflicting entry is overwritten or dropped.
C1_ConflictsBothKept ==
    Merged =>
        \A i, j \in 1..Len(ParsedEntries) :
            (i < j /\ Conflicting(ParsedEntries[i], ParsedEntries[j])) =>
                \E a, b \in 1..Len(Output) :
                    /\ a # b
                    /\ StandsFor(Output[a], ParsedEntries[i])
                    /\ StandsFor(Output[b], ParsedEntries[j])

\* two artifacts of one port element each, the two elements equal in every field
TwoEqualEntries ==
    /\ Merged
    /\ Len(EntryLists) = 2
    /\ Len(EntryLists[1]) = 1 /\ Len(EntryLists[2]) = 1
    /\ [EntryLists[1][1] EXCEPT !.source = << >>] = [EntryLists[2][1] EXCEPT !.source = << >>]
    /\ EntryLists[1][1].source # EntryLists[2][1].source

\* the labels x and y in string order, joined by "+"
SortedPair(x, y) == IF LabelRank[x] < LabelRank[y] THEN <<x, y>> ELSE <<y, x>>

\* one output entry with the sorted joined source, whichever list comes first
OneEntryWithBothSources ==
    LET e1 == EntryLists[1][1]
        e2 == EntryLists[2][1]
        want == << [e1 EXCEPT !.source = SortedPair(e1.source[1], e2.source[1])] >>
    IN /\ Output = want
       /\ \A flip \in BOOLEAN :
              merge_entries(<<EntryLists[2], EntryLists[1]>>, flip) = want

\* C2 as claimed: two entries identical in every important field that differ only in
\* source give exactly one output entry whose source is the sorted labels joined by "+",
\* in either order of the lists.
C2_EqualEntriesMergeToOne == TwoEqualEntries => OneEntryWithBothSources

\* C2 amended: two non-empty entries identical in every important field that differ only
\* in source give exactly one output entry whose source is the sorted labels joined by
\* "+", in either order of the lists (two empty entries give no output entry).
C2_NonEmptyEqualEntriesMergeToOne ==
    (TwoEqualEntries /\ ~is_empty(EntryLists[1][1])) => OneEntryWithBothSources

C2_Witness ==
    /\ TwoEqualEntries /\ ~is_empty(EntryLists[1][1])
    /\ Len(Output) = 1 /\ Len(Output[1].source) = 2

\* C3: the list returned by merge_entries never holds two entries of the same merge key
\* that are identical in every important field (up to the empty values).
C3_NoDuplicateRecords ==
    Merged =>
        \A a, b \in 1..Len(Output) :
            a < b => ~(MergeKey(Output[a]) = MergeKey(Output[b])
                        /\ Identical(Output[a], Output[b]))

\* C4: merging the output of merge_entries again, as one list, returns the same entries
\* in the same order with the same source and script_output.
C4_MergeIdempotent ==
    (Merged \/ pc = "merge_returned") =>
        \A flip \in BOOLEAN : merge_entries(<<Output>>, flip) = Output

\* the lists in the order p
Permuted(lists, p) == [i \in 1..Len(p) |-> lists[p[i]]]

\* the same records: each record of one list has a record of the other list that is
\* identical in every important field and has the same set of source labels
SameRecords(l1, l2) ==
    LET Same(r1, r2) == Identical(r1, r2) /\ Range(r1.source) = Range(r2.source)
    IN /\ \A i \in 1..Len(l1) : \E j \in 1..Len(l2) : Same(l1[i], l2[j])
       /\ \A j \in 1..Len(l2) : \E i \in 1..Len(l1) : Same(l1[i], l2[j])

\* C5: for every order of the same input lists merge_entries returns the same set of
\* records (same important-field values, same source sets).
C5_OrderIndependent ==
    Merged =>
        \A p \in Perms(1..Len(EntryLists)) : \A flip \in BOOLEAN :
            SameRecords(merge_entries(Permuted(EntryLists, p), flip), Output)

\* the source strings made of the scan labels: a single label, or merged labels
SourceValues == {SortSet(S, LabelRank) : S \in (SUBSET ScanLabels) \ {{}}}

\* merge_sources is commutative, associative and idempotent
MergeSourcesAlgebra ==
    \A a, b, c \in SourceValues :
        /\ merge_sources(a, b) = merge_sources(b, a)
        /\ merge_sources(merge_sources(a, b), c) = merge_sources(a, merge_sources(b, c))
        /\ merge_sources(a, a) = a

\* the labels of the i-th record of the dict m (none when there is no i-th record)
LabelsAt(m, i) == IF i <= Len(m) THEN Range(m[i].val.source) ELSE {}

\* every record of the dict has a source, and no label of it is empty
SourcesNonEmpty ==
    \A i \in 1..Len(merged) :
        merged[i].val.source # << >> /\ "" \notin Range(merged[i].val.source)

\* the labels in the returned list are those of the non-empty input entries
LabelsConserved ==
    Merged =>
        UNION {Range(Output[i].source) : i \in 1..Len(Output)}
          = UNION {Range(ParsedEntries[i].source) :
                      i \in {j \in 1..Len(ParsedEntries) : ~is_empty(ParsedEntries[j])}}

\* one iteration of merge_entries on a non-empty entry: no record loses a label, the
\* labels of the entry are in one record afterwards, and a record gains no label but
\* those of the entry
SourceUnionStep ==
    (pc = "merge" /\ pos' = pos + 1 /\ ~is_empty(MergeInput[pos + 1])) =>
        LET e == MergeInput[pos + 1]
        IN /\ \A i \in 1..Len(merged) : LabelsAt(merged, i) \subseteq LabelsAt(merged', i)
           /\ \E i \in 1..Len(merged') :
                  /\ Range(e.source) \subseteq LabelsAt(merged', i)
                  /\ LabelsAt(merged', i) = LabelsAt(merged, i) \cup Range(e.source)
                     \/ LabelsAt(merged', i) = Range(e.source)
                  /\ \A j \in (1..Len(merged')) \ {i} : LabelsAt(merged', j) = LabelsAt(merged, j)

\* C6: with a non-empty source label on every input entry, every entry merge_entries
\* returns has a non-empty source, which as a set of labels is the union of the labels
\* of the input entries merged into it; merge_sources is commutative, associative and
\* idempotent.
C6_SourceIsUnion ==
    /\ [](SourcesNonEmpty /\ LabelsConserved /\ MergeSourcesAlgebra)
    /\ [][SourceUnionStep]_vars

\* a returned record that carries the labels of three artifacts
C6_Witness ==
    /\ Merged
    /\ \E i \in 1..Len(Output) : Len(Output[i].source) = 3

\* every important field is one of "", "-", "0" or null (str(None) is "None")
AllFieldsBlank(e) ==
    \A i \in 1..Len(get_important_fields) :
        LET k == get_important_fields[i]
            v == FieldStr(e, k)
        IN CASE k = "port"          -> v = <<"0">>
             [] k = "script_output" -> v \in {TextOf(w) : w \in {"", "-", "0", "None"}}
             [] OTHER               -> v \in {"", "-", "0", "None"}

\* C7: an entry whose every important field is "", "-", "0" or null is never in the
\* output of merge_entries nor among the rows the collector inserts, with and without
\* merge; filtering again removes nothing; is_empty and is_meaningful_entry classify
\* every entry the same way.
C7_BlankEntriesDropped ==
    /\ \A i \in 1..Len(merged) : ~AllFieldsBlank(merged[i].val)
    /\ \A i \in 1..Len(results) : ~AllFieldsBlank(results[i].data)
    /\ \A i \in 1..Len(InsertedRows) : ~AllFieldsBlank(InsertedRows[i].data)
    /\ Meaningful(results) = results
    /\ \A i \in 1..Len(ParsedEntries) :
           is_empty(ParsedEntries[i])
             <=> ~is_meaningful_entry(ParsedEntries[i], get_important_fields)

\* a finished run that inserted rows although an artifact held a blank port element
C7_Witness ==
    /\ pc = "done" /\ InsertedRows # << >>
    /\ \E i \in 1..Len(ParsedEntries) : AllFieldsBlank(ParsedEntries[i])

\* the meaningful entries among those merge_entries returned
MeaningfulOutput ==
    LET Keep(e) == is_meaningful_entry(e, get_important_fields)
    IN SelectSeq(Output, Keep)

\* C8: with two or more artifacts of a merge-capable capability, every meaningful entry
\* merge_entries returned is inserted exactly once: the rows inserted are as many as the
\* meaningful reconciled entries.
C8_EachEntryInsertedOnce ==
    (pc = "done" /\ Merged) =>
        /\ Len(InsertedRows) = Len(MeaningfulOutput)
        /\ \A i \in 1..Len(MeaningfulOutput) :
               Cardinality({j \in 1..Len(InsertedRows) :
                               InsertedRows[j].data = MeaningfulOutput[i]}) = 1

\* C11: when parse raised for one artifact of the capability, the meaningful entries of
\* the capability's other artifacts are still persisted: each has a row that stands for
\* it.
C11_SiblingArtifactsKept ==
    (pc = "done" /\ AnyParseRaises) =>
        \A i \in 1..Len(temp_files) :
            ~ParseRaises(temp_files[i]) =>
                LET parsed == parse(temp_files[i], temp_files[i].source)
                IN \A k \in 1..Len(parsed) :
                       is_meaningful_entry(parsed[k], get_important_fields) =>
                           \E r \in 1..Len(InsertedRows) :
                               StandsFor(InsertedRows[r].data, parsed[k])

\* the source labels of the IP variants and of the domain variants
IpLabels == {"ip_tcp", "ip_http"}
DomainLabels == {"domain_http", "domain_https"}

\* C28: every row the collector persists carries the target its finding was observed
\* on: the configured IP when the entry's source labels are all IP variants, the
\* configured domain when they are all domain variants, and never "unknown", on the
\* merge path and on the pass-through path.
C28_RowsCarryObservedTarget ==
    \A r \in 1..Len(InsertedRows) :
        LET labels == Range(InsertedRows[r].data.source)
        IN /\ InsertedRows[r].target # "unknown"
           /\ labels \subseteq IpLabels => InsertedRows[r].target = config.target_ip
           /\ labels \subseteq DomainLabels => InsertedRows[r].target = config.target_domain

\* load_and_categorize_results: the data of the stored rows, newest first
\* (ORDER BY created_at DESC), grouped by plugin in that order
LoadedData == [i \in 1..Len(rows) |-> rows[Len(rows) + 1 - i].data]

\* show_in_terminal, merge_enabled: the loop over all_data with the seen dictionary; an
\* entry whose (port, protocol, service_name) is already there only adds its sources
RECURSIVE SeenFold(_, _)
SeenFold(seen, all_data) ==
    IF all_data = << >> THEN seen
    ELSE LET d == Head(all_data)
             key == MergeKey(d)
         IN SeenFold(
                IF InDict(seen, key)
                THEN DictSet(seen, key,
                         [DictGet(seen, key) EXCEPT
                              !.source = merge_sources(DictGet(seen, key).source, d.source)])
                ELSE DictSet(seen, key, d),
                Tail(all_data))

\* show_in_terminal: a row of the table is skipped when every cell is "-" or ""
AllCellsDash(d) ==
    /\ d.source = << >>
    /\ \A i \in 1..Len(get_important_fields) :
           LET k == get_important_fields[i]
           IN CASE k = "port"          -> FALSE
                [] k = "script_output" -> d[k] \in {DashText, EmptyText}
                [] OTHER               -> d[k] \in {"-", ""}

\* show_in_terminal for the entries of nmap (should_merge_entries is true): the rows of
\* the printed table
show_in_terminal(all_data) ==
    LET IsMeaningful(d) == is_meaningful_entry(d, get_important_fields)
        NotDash(d) == ~AllCellsDash(d)
        unique_data == DictValues(SeenFold(<< >>, SelectSeq(all_data, IsMeaningful)))
    IN SelectSeq(unique_data, NotDash)

\* the rows the terminal report shows for the stored entries
Shown == show_in_terminal(LoadedData)

\* C24: conflicting entries retained by reconciliation are both surfaced: two stored
\* entries that share (port, protocol, service_name) but differ in an important field
\* are both shown as rows of the terminal report.
C24_ConflictsBothShown ==
    (pc = "reports" /\ parsed_lists # << >>) =>
        \A i, j \in 1..Len(InsertedRows) :
            Conflicting(InsertedRows[i].data, InsertedRows[j].data) =>
                \E a, b \in 1..Len(Shown) :
                    /\ a # b
                    /\ Identical(InsertedRows[i].data, Shown[a])
                    /\ Identical(InsertedRows[j].data, Shown[b])

\* the artifacts of the index give the collector nothing to insert: there is none, or
\* none of them yields a meaningful entry
EmptyResultSet ==
    \A i \in 1..Len(temp_files) :
        ~ParseRaises(temp_files[i]) =>
            Meaningful([k \in 1..Len(parse(temp_files[i], temp_files[i].source)) |->
                           WithTarget(parse(temp_files[i], temp_files[i].source)[k], "unknown")])
              = << >>

\* reports are generated after a collector run on an empty result set
EmptyRunEnded == pc = "reports" /\ config.db_up /\ EmptyResultSet

\* C14: an empty result set is a valid outcome: with the database reachable, a collector
\* given no artifact, or only artifacts without a meaningful entry, ends with exit code
\* 0 and no row inserted, and start.main goes on to report generation whatever the
\* collector's exit code.
C14_EmptyResultSetIsValid ==
    /\ [](EmptyRunEnded => (outcome = "exit_0" /\ rows \in StoredRows /\ total_added = 0))
    /\ [][pc = "done" => pc' = "reports"]_vars

\* reports were reached after a run on an index without paths
C14_Witness == EmptyRunEnded /\ temp_files = << >>

\* reports were reached after a run on artifacts that hold blank port elements only
C14_WitnessBlank == EmptyRunEnded /\ temp_files # << >> /\ ~AnyParseRaises

\* ------------------------------------------------------- plugin_runner
\* a configuration key that is missing (dict.get returns None)
Absent == "<absent>"

\* not value, for a target read from the configuration
Falsy(v) == v = Absent \/ v = ""

\* the capability manifests of the model (config["plugins"] records): enabled is false
\* for a manifest whose flag is false or missing, install is the
\* number of install commands, parser the "parser" key, command whether a command
\* template is given, output the "output" key
ManifestPool ==
    {[name |-> "nmap", enabled |-> TRUE, ip_required |-> TRUE, vhost_required |-> FALSE,
      install |-> 2, parser |-> "xml", command |-> TRUE,
      output |-> "results/nmap.xml"],
     [name |-> "whatweb", enabled |-> TRUE, ip_required |-> FALSE, vhost_required |-> TRUE,
      install |-> 1, parser |-> "text", command |-> TRUE,
      output |-> "results/whatweb.txt"],
     [name |-> "curl", enabled |-> TRUE, ip_required |-> FALSE, vhost_required |-> FALSE,
      install |-> 0, parser |-> "json", command |-> TRUE,
      output |-> "results/curl.json"],
     [name |-> "dig", enabled |-> TRUE, ip_required |-> FALSE, vhost_required |-> TRUE,
      install |-> 0, parser |-> "python", command |-> FALSE,
      output |-> "results/dig.json"],
     [name |-> "nikto", enabled |-> FALSE, ip_required |-> FALSE, vhost_required |-> FALSE,
      install |-> 1, parser |-> "json", command |-> TRUE,
      output |-> "results/nikto.json"]}

\* the configurations of a run of plugin_runner; is_root is os.geteuid() == 0
RunnerConfigs ==
    {[target_ip |-> ip, target_domain |-> dom, plugins |-> ps, is_root |-> root] :
        ip \in {Absent, IpTarget}, dom \in {Absent, "", DomainTarget}, root \in BOOLEAN,
        ps \in UNION {[1..n -> ManifestPool] : n \in 0..MaxPlugins}}

InitRunner ==
    /\ config \in RunnerConfigs
    /\ pc = "startup"
    /\ tasks = << >>
    /\ outcome = "none"
    /\ artifacts = << >>
    /\ index = NoIndex
    /\ temp_files = << >> /\ parsed_lists = << >> /\ merged = << >> /\ pos = 0
    /\ results = << >> /\ rows = << >> /\ total_added = 0

\* the variables of the collector, which plugin_runner and the scans leave alone
CollectorVars == <<temp_files, parsed_lists, merged, pos, results, rows, total_added>>

NotRunner == <<CollectorVars, artifacts, index>>

\* a module level that dispatches without looking at the targets
StartupCheckSkipped ==
    /\ pc = "startup"
    /\ pc' = "main"
    /\ UNCHANGED <<config, tasks, outcome>>
    /\ UNCHANGED NotRunner

\* module level of plugin_runner: without target_ip and target_domain it raises
StartupCheck ==
    /\ pc = "startup"
    /\ IF Falsy(config.target_ip) /\ Falsy(config.target_domain)
       THEN pc' = "exit" /\ outcome' = "ValueError"
       ELSE pc' = "main" /\ outcome' = outcome
    /\ UNCHANGED <<config, tasks>>
    /\ UNCHANGED NotRunner

\* the coroutine run_tool(plugin) before its first step; installs counts the install
\* commands handed to create_subprocess_shell, sudo whether they were prefixed with sudo,
\* nonzero whether one of them exited non-zero, preinstalled whether is_tool_installed
\* found the tool, removed / launched / wrote what the task did, target the target put
\* into the command. st is the place of the coroutine: "new", inside
\* create_subprocess_shell ("spawn_install", "spawn_tool"), inside communicate()
\* ("install", "running"), returned ("done"), left by an exception ("raised") or
\* cancelled by asyncio.run ("cancelled"); late: the coroutine took a step after main
\* had left gather with an exception
NewTask(i) ==
    [plugin |-> i, st |-> "new", result |-> "none", installs |-> 0, sudo |-> FALSE,
     nonzero |-> FALSE, preinstalled |-> FALSE, removed |-> FALSE, launched |-> FALSE,
     wrote |-> FALSE, target |-> Absent, late |-> FALSE]

\* a main that hands every plugin of the configuration to gather
MainGatherAll ==
    /\ pc = "main"
    /\ tasks' = [k \in 1..Len(config.plugins) |-> NewTask(k)]
    /\ pc' = "gather"
    /\ UNCHANGED <<config, outcome>>
    /\ UNCHANGED NotRunner

\* main: one run_tool coroutine per plugin with a true "enabled", handed to gather
MainGather ==
    /\ pc = "main"
    /\ LET IsOn(i) == config.plugins[i].enabled
           on == SelectSeq([i \in 1..Len(config.plugins) |-> i], IsOn)
       IN tasks' = [k \in 1..Len(on) |-> NewTask(on[k])]
    /\ pc' = "gather"
    /\ UNCHANGED <<config, outcome>>
    /\ UNCHANGED NotRunner

\* output_path = os.path.join(ROOT_DIR, plugin["output"]) of the task's manifest
OutputPath(t) == config.plugins[t.plugin].output

\* TARGET = TARGET_IP if ip_required else TARGET_DOMAIN
TargetOf(plugin) == IF plugin.ip_required THEN config.target_ip ELSE config.target_domain

\* run_tool after install_plugin succeeded: the command is built outside the try block
\* (str.replace raises TypeError for a missing target), the Python plugin or the
\* subprocess is started inside it (an exception there is logged and the task ends);
\* a started tool leaves the coroutine inside create_subprocess_shell
Launch(t, launch_ok) ==
    LET plugin == config.plugins[t.plugin]
    IN IF TargetOf(plugin) = Absent
       THEN [t EXCEPT !.st = "raised", !.result = "TypeError"]
       ELSE IF plugin.parser = "python" \/ ~plugin.command
       THEN [t EXCEPT !.st = "done", !.target = TargetOf(plugin),
                      !.result = IF launch_ok THEN "python_done" ELSE "logged_exception"]
       ELSE IF launch_ok
       THEN [t EXCEPT !.st = "spawn_tool", !.launched = TRUE, !.target = TargetOf(plugin)]
       ELSE [t EXCEPT !.st = "done", !.target = TargetOf(plugin),
                      !.result = "logged_exception"]

\* install_plugin: the next install command, prefixed with sudo when the process is not
\* root, is handed to create_subprocess_shell outside any try block; when the subprocess
\* cannot be started (ValueError of an embedded null byte, OSError of fork or exec) the
\* exception leaves install_plugin and run_tool
InstallCommand(t, spawn_ok) ==
    IF spawn_ok
    THEN [t EXCEPT !.st = "spawn_install", !.installs = t.installs + 1,
                   !.sudo = ~config.is_root]
    ELSE [t EXCEPT !.st = "raised", !.result = "ValueError",
                   !.installs = t.installs + 1, !.sudo = ~config.is_root]

\* a run_tool that removes the old XML output before it checks the targets
BeginRemoveFirst(t, stale, installed, spawn_ok, launch_ok) ==
    LET plugin == config.plugins[t.plugin]
        t1 == [t EXCEPT !.removed = (plugin.parser = "xml" /\ stale)]
    IN IF ~plugin.enabled
       THEN [t EXCEPT !.st = "done", !.result = "disabled"]
       ELSE IF plugin.ip_required /\ Falsy(config.target_ip)
       THEN [t1 EXCEPT !.st = "done", !.result = "skipped"]
       ELSE IF plugin.vhost_required /\ Falsy(config.target_domain)
       THEN [t1 EXCEPT !.st = "done", !.result = "skipped"]
       ELSE IF plugin.install = 0
       THEN Launch(t1, launch_ok)
       ELSE IF installed
       THEN Launch([t1 EXCEPT !.preinstalled = TRUE], launch_ok)
       ELSE InstallCommand(t1, spawn_ok)

\* run_tool up to its first await: the enabled and target checks, the removal of an old
\* XML output, install_plugin up to its first command
Begin(t, stale, installed, spawn_ok, launch_ok) ==
    LET plugin == config.plugins[t.plugin]
    IN IF ~plugin.enabled
       THEN [t EXCEPT !.st = "done", !.result = "disabled"]
       ELSE IF plugin.ip_required /\ Falsy(config.target_ip)
       THEN [t EXCEPT !.st = "done", !.result = "skipped"]
       ELSE IF plugin.vhost_required /\ Falsy(config.target_domain)
       THEN [t EXCEPT !.st = "done", !.result = "skipped"]
       ELSE LET t1 == [t EXCEPT !.removed = (plugin.parser = "xml" /\ stale)]
            IN IF plugin.install = 0
               THEN Launch(t1, launch_ok)
               ELSE IF installed
               THEN Launch([t1 EXCEPT !.preinstalled = TRUE], launch_ok)
               ELSE InstallCommand(t1, spawn_ok)

\* every coroutine handed to gather has run up to its first await
AllBegun == \A i \in 1..Len(tasks) : tasks[i].st # "new"

\* a coroutine left run_tool with an exception, which gather hands to main
AnyRaised == \E i \in 1..Len(tasks) : tasks[i].st = "raised"

\* gather's future takes the exception of the first task that raises; later exceptions
\* are not raised in main. While gather is awaited, outcome holds that exception
GatherException(t_after) ==
    IF outcome = "none" /\ t_after.st = "raised" THEN t_after.result ELSE outcome

\* run_tool(plugin) starts: gather schedules the coroutines in the order of the list and
\* the event loop runs the first step of each before anything else
ToolBegin ==
    \E i \in 1..Len(tasks) :
    /\ pc = "gather"
    /\ tasks[i].st = "new"
    /\ \A j \in 1..(i - 1) : tasks[j].st # "new"
    /\ \E stale, installed, spawn_ok, launch_ok \in BOOLEAN :
           LET t_after == Begin(tasks[i], stale, installed, spawn_ok, launch_ok)
           IN /\ tasks' = [tasks EXCEPT ![i] = t_after]
              /\ outcome' = GatherException(t_after)
    /\ UNCHANGED <<config, pc>>
    /\ UNCHANGED NotRunner

\* create_subprocess_shell returns in a coroutine: the pipes of the started subprocess
\* are connected and the coroutine goes on to communicate(). The event loop takes this
\* step, like the exit of a subprocess, after the first steps of all coroutines; when a
\* task has raised, the steps of the other tasks that are due before main is resumed
\* are still taken, and after main has left gather each task takes at most the one step
\* that was already due in that turn of the event loop
SubprocessStarted ==
    \E i \in 1..Len(tasks) :
    /\ pc = "gather" \/ (pc = "main_raised" /\ ~tasks[i].late)
    /\ AllBegun
    /\ tasks[i].st \in {"spawn_install", "spawn_tool"}
    /\ tasks' = [tasks EXCEPT ![i].st =
                    IF tasks[i].st = "spawn_install" THEN "install" ELSE "running",
                               ![i].late = (pc = "main_raised")]
    /\ UNCHANGED <<config, pc, outcome>>
    /\ UNCHANGED NotRunner

\* install_plugin: the running install command exits with rc_ok or not. stdout (when
\* there is any) and, after a non-zero exit, stderr are decoded outside any try block:
\* output that is not UTF-8 raises UnicodeDecodeError out of install_plugin and
\* run_tool. A non-zero exit ends the task, otherwise the next install command or the
\* tool is started
InstallExit ==
    \E i \in 1..Len(tasks) :
    /\ pc = "gather" \/ (pc = "main_raised" /\ ~tasks[i].late)
    /\ AllBegun
    /\ tasks[i].st = "install"
    /\ \E rc_ok, decode_ok, spawn_ok, launch_ok \in BOOLEAN :
           LET t == [tasks[i] EXCEPT !.nonzero = ~rc_ok, !.late = (pc = "main_raised")]
               plugin == config.plugins[t.plugin]
               t_after ==
                  IF ~decode_ok
                  THEN [t EXCEPT !.st = "raised", !.result = "UnicodeDecodeError"]
                  ELSE IF ~rc_ok
                  THEN [t EXCEPT !.st = "done", !.result = "install_failed"]
                  ELSE IF t.installs < plugin.install
                  THEN InstallCommand(t, spawn_ok)
                  ELSE Launch(t, launch_ok)
           IN /\ tasks' = [tasks EXCEPT ![i] = t_after]
              /\ outcome' = GatherException(t_after)
    /\ UNCHANGED <<config, pc>>
    /\ UNCHANGED NotRunner

\* run_tool: the tool's process exits, all inside the try block. After a non-zero exit
\* stderr is decoded for the log (an exception there is logged); output of the xml and
\* json parsers is the tool's own file, other output is decoded and written by run_tool
\* (an exception there is logged)
ToolExit ==
    \E i \in 1..Len(tasks) :
    /\ pc = "gather" \/ (pc = "main_raised" /\ ~tasks[i].late)
    /\ AllBegun
    /\ tasks[i].st = "running"
    /\ \E rc_ok, decode_ok, write_ok \in BOOLEAN :
           LET t == [tasks[i] EXCEPT !.late = (pc = "main_raised")]
               plugin == config.plugins[t.plugin]
           IN tasks' = [tasks EXCEPT ![i] =
                  IF ~rc_ok
                  THEN [t EXCEPT !.st = "done",
                           !.result = IF decode_ok THEN "tool_failed"
                                      ELSE "logged_exception"]
                  ELSE IF plugin.parser \in {"xml", "json"}
                  THEN [t EXCEPT !.st = "done", !.result = "ok"]
                  ELSE IF decode_ok /\ write_ok
                  THEN [t EXCEPT !.st = "done", !.result = "ok", !.wrote = TRUE]
                  ELSE [t EXCEPT !.st = "done", !.result = "logged_exception"]]
    /\ UNCHANGED <<config, pc, outcome>>
    /\ UNCHANGED NotRunner

\* await asyncio.gather(*tasks): the exception of the first task that raised is raised
\* in main and main leaves. The event loop finishes its turn before asyncio.run goes on:
\* the steps of other tasks that were already due are still taken
GatherRaise ==
    /\ pc = "gather"
    /\ AllBegun /\ AnyRaised
    /\ pc' = "main_raised"
    /\ UNCHANGED <<config, tasks, outcome>>
    /\ UNCHANGED NotRunner

\* asyncio.run(main()) after main has raised: the tasks that have not finished are
\* cancelled and waited for. A task waiting in communicate() ends with CancelledError;
\* a task cancelled inside create_subprocess_shell either ends with CancelledError or
\* never finishes (stuck), depending on how far the start of the subprocess has come
\* (CPython 3.11). With a task that never finishes the plugin_runner process does not
\* end and start.run_plugins stays in subprocess.run; otherwise the process ends with
\* the exception
RunCleanup ==
    /\ pc = "main_raised"
    /\ \E stuck \in SUBSET {i \in 1..Len(tasks) :
                                tasks[i].st \in {"spawn_install", "spawn_tool"}} :
           /\ tasks' = [i \in 1..Len(tasks) |->
                           IF /\ tasks[i].st \in {"spawn_install", "spawn_tool",
                                                   "install", "running"}
                              /\ i \notin stuck
                           THEN [tasks[i] EXCEPT !.st = "cancelled"]
                           ELSE tasks[i]]
           /\ pc' = IF stuck = {} THEN "exit" ELSE "cleanup"
    /\ UNCHANGED <<config, outcome>>
    /\ UNCHANGED NotRunner

\* a wait that returns as soon as one task has returned
GatherReturnFirstDone ==
    /\ pc = "gather"
    /\ \E i \in 1..Len(tasks) : tasks[i].st = "done"
    /\ outcome' = "returned"
    /\ pc' = "exit"
    /\ UNCHANGED <<config, tasks>>
    /\ UNCHANGED NotRunner

\* await asyncio.gather(*tasks): every task has returned, main flushes the log and returns
GatherReturn ==
    /\ pc = "gather"
    /\ \A i \in 1..Len(tasks) : tasks[i].st = "done"
    /\ outcome' = "returned"
    /\ pc' = "exit"
    /\ UNCHANGED <<config, tasks>>
    /\ UNCHANGED NotRunner

\* start.run_plugins after the plugin_runner process has ended: a non-zero exit code
\* (an exception left the module or main) ends start.py with exit(1), otherwise main
\* goes on to run_collector
RunPluginsReturn ==
    /\ pc = "exit"
    /\ pc' = IF outcome = "returned" THEN "collector" ELSE "aborted"
    /\ UNCHANGED <<config, tasks, outcome>>
    /\ UNCHANGED NotRunner

NextRunner ==
    \/ StartupCheck
    \/ MainGather
    \/ ToolBegin \/ SubprocessStarted \/ InstallExit \/ ToolExit
    \/ GatherRaise
    \/ RunCleanup
    \/ GatherReturn
    \/ RunPluginsReturn

SpecRunner == InitRunner /\ [][NextRunner]_vars

\* C9: main does not raise on partial failure: whatever tasks fail (install step, tool
\* exit code, an exception while the command is prepared or launched), every task runs
\* to its own completion and main returns normally.
C9_MainNeverRaises ==
    (/\ pc \in {"exit", "cleanup"}
     /\ ~(Falsy(config.target_ip) /\ Falsy(config.target_domain))) =>
        /\ outcome = "returned"
        /\ \A i \in 1..Len(tasks) : tasks[i].st = "done"

\* the install commands task i has executed are the first of its manifest, prefixed with
\* sudo when the process is not root; a task whose install command exited non-zero has
\* returned from run_tool with the failure logged
InstallsInOrder(i) ==
    LET t == tasks[i]
        plugin == config.plugins[t.plugin]
    IN /\ t.installs \in 0..plugin.install
       /\ t.nonzero => (t.st = "done" /\ t.result = "install_failed")
       /\ t.installs > 0 => t.sudo = ~config.is_root
       /\ t.preinstalled => t.installs = 0
       /\ t.result = "install_failed" => ~t.launched /\ t.target = Absent
       /\ (t.launched \/ t.result \in {"python_done", "ok", "tool_failed"}) =>
              (t.installs = plugin.install \/ (t.installs = 0 /\ t.preinstalled))

\* a step runs at most the next install command of a task, and the step in which an
\* install command fails ends that task for good and touches no other task nor the run
InstallStep ==
    \A i \in 1..Len(tasks) :
        (Len(tasks') = Len(tasks) /\ pc \in {"gather", "main_raised"}) =>
            /\ tasks'[i].installs \in {tasks[i].installs, tasks[i].installs + 1}
            /\ (tasks[i].result # "install_failed" /\ tasks'[i].result = "install_failed") =>
                   /\ tasks'[i].installs = tasks[i].installs
                   /\ pc' = pc
                   /\ \A j \in (1..Len(tasks)) \ {i} : tasks'[j] = tasks[j]
            /\ tasks[i].result = "install_failed" => tasks'[i] = tasks[i]

\* C15: the install commands of a capability that is not installed run one at a time in
\* declared order, with sudo when the process is not root; after the first one that
\* fails no later install command runs and the tool is never launched for the task,
\* while the other tasks and the run go on; an installed capability runs no install
\* command.
C15_InstallInOrderAbortOnFailure ==
    /\ [](\A i \in 1..Len(tasks) : InstallsInOrder(i))
    /\ [][InstallStep]_vars

\* the task did nothing: no install command, no removal, no launch, no output written
Untouched(t) == t.installs = 0 /\ ~t.removed /\ ~t.launched /\ ~t.wrote

\* C16: a capability whose manifest has enabled false (or no enabled flag) produces no
\* task: nothing is installed, launched or written for it, and the artifact index has
\* no entry for it.
C16_DisabledProducesNoTask ==
    \A k \in 1..Len(config.plugins) :
        ~config.plugins[k].enabled =>
            /\ \A i \in 1..Len(tasks) : tasks[i].plugin # k
            /\ \A i \in 1..Len(index.paths) : index.paths[i].plugin # config.plugins[k].name

\* a run that returned with a disabled capability in the configuration next to an
\* enabled one whose tool ran
C16_Witness ==
    /\ pc = "exit" /\ outcome = "returned"
    /\ \E k \in 1..Len(config.plugins) : ~config.plugins[k].enabled
    /\ \E i \in 1..Len(tasks) : tasks[i].result = "ok"

\* the capability of task t requires a target that is not configured
RequiredTargetMissing(t) ==
    LET plugin == config.plugins[t.plugin]
    IN \/ plugin.ip_required /\ Falsy(config.target_ip)
       \/ plugin.vhost_required /\ Falsy(config.target_domain)

\* the step that skips a task changes no other task
SkipStep ==
    \A i \in 1..Len(tasks) :
        (Len(tasks') = Len(tasks) /\ tasks[i].result = "none" /\ tasks'[i].result = "skipped") =>
            \A j \in (1..Len(tasks)) \ {i} : tasks'[j] = tasks[j]

\* C17: a capability with ip_required and no target_ip, or with vhost_required and no
\* target_domain, is skipped: nothing is installed, deleted or executed for it, run_tool
\* returns without raising, and the other tasks are unaffected.
C17_MissingTargetSkipped ==
    /\ [](\A i \in 1..Len(tasks) :
             RequiredTargetMissing(tasks[i]) =>
                 /\ Untouched(tasks[i])
                 /\ tasks[i].st # "raised"
                 /\ tasks[i].result \in {"none", "skipped"})
    /\ [][SkipStep]_vars

\* a skipped task of an XML capability next to a task whose tool ran
C17_Witness ==
    /\ pc = "exit" /\ outcome = "returned"
    /\ \E i, j \in 1..Len(tasks) :
           /\ tasks[i].result = "skipped"
           /\ config.plugins[tasks[i].plugin].parser = "xml"
           /\ tasks[j].result = "ok"

\* C18: every tool command run_tool builds and launches is given a target that is
\* present in the configuration, never an absent one.
C18_LaunchedWithPresentTarget ==
    \A i \in 1..Len(tasks) :
        tasks[i].launched =>
            /\ ~Falsy(tasks[i].target)
            /\ tasks[i].target \in {config.target_ip, config.target_domain}

\* C19: with neither target_ip nor target_domain configured the plugin runner fails at
\* startup before any task is dispatched: no task exists, so no install command and no
\* tool is executed, and the run ends with the ValueError of the startup check.
C19_NoTargetFailsAtStartup ==
    (Falsy(config.target_ip) /\ Falsy(config.target_domain)) =>
        /\ tasks = << >>
        /\ pc \in {"startup", "exit", "aborted"}
        /\ pc # "startup" => outcome = "ValueError"

\* a run without targets and with an enabled capability that start.py saw fail
C19_Witness ==
    /\ Falsy(config.target_ip) /\ Falsy(config.target_domain)
    /\ pc = "aborted"
    /\ \E k \in 1..Len(config.plugins) :
           config.plugins[k].enabled /\ config.plugins[k].install > 0

\* the task has terminated: its coroutine returned, raised or was cancelled, and no
\* install command or tool of it is awaited
Terminated(t) == t.st \in {"done", "raised", "cancelled"}

\* C22: the collector starts only after every scan task of every capability has
\* terminated (succeeded or failed): when start.main reaches run_collector no install
\* command and no tool is running, and no task changes afterwards.
C22_AllCompleteBeforeMerge ==
    /\ [](pc = "collector" => \A i \in 1..Len(tasks) : Terminated(tasks[i]))
    /\ [][pc = "collector" => tasks' = tasks]_vars

\* the collector is reached after one tool succeeded and another failed
C22_Witness ==
    /\ pc = "collector"
    /\ \E i, j \in 1..Len(tasks) :
           /\ tasks[i].result = "ok" /\ tasks[i].launched
           /\ tasks[j].result \in {"tool_failed", "install_failed"}

\* C23: no two tool invocations that run concurrently are given the same output path:
\* two tasks of plugin_runner whose tools are running at the same time write to
\* different paths.
C23_DistinctArtifactPaths ==
    \A i, j \in 1..Len(tasks) :
        (i # j /\ tasks[i].st \in {"spawn_tool", "running"}
               /\ tasks[j].st \in {"spawn_tool", "running"}) =>
            OutputPath(tasks[i]) # OutputPath(tasks[j])

\* the capabilities whose task ended with an artifact
SucceededPlugins ==
    { config.plugins[tasks[i].plugin].name :
        i \in { j \in 1..Len(tasks) : tasks[j].result \in {"ok", "python_done"} } }

\* C13: with target_ip or target_domain configured, the run of the plugins always
\* completes and emits the artifact index: when run_plugins has seen plugin_runner end,
\* the run goes on, and the index file exists and lists exactly the successful artifacts.
C13_RunEmitsIndex ==
    (/\ pc \in {"collector", "aborted"}
     /\ ~(Falsy(config.target_ip) /\ Falsy(config.target_domain))) =>
        /\ pc = "collector"
        /\ index.exists
        /\ { index.paths[i].plugin : i \in 1..Len(index.paths) } = SucceededPlugins

\* ---------------------------------------------------------------------------------
\* plugins/nmap.py scan and plugins/nikto.py scan: one invocation per enabled variant
\* of the level configuration, all awaited by one asyncio.gather
\* ---------------------------------------------------------------------------------

\* the protocol sections a target type of the level configuration may carry
ScanProtos == <<"http", "https">>

\* a protocol section: "enabled" (default true) and whether "flags" is non-empty
SectionPool ==
    { [present |-> TRUE, enabled |-> TRUE, flags |-> TRUE],
      [present |-> TRUE, enabled |-> FALSE, flags |-> TRUE],
      [present |-> TRUE, enabled |-> TRUE, flags |-> FALSE] }

\* .get(proto, {}) of a protocol that is not configured: no flags, enabled by default
NoSection == [present |-> FALSE, enabled |-> TRUE, flags |-> FALSE]

TargetTypes == <<"ip", "domain", "network">>

\* level_config.get(type, {}): the sections of one target type, by protocol; a protocol
\* that is not configured is NoSection; keys lists the configured protocols in the order
\* of the level file (the order .items() yields them in)
TypeSections ==
    { s \in { [http |-> a, https |-> b, keys |-> k] :
                 a \in SectionPool \cup {NoSection}, b \in SectionPool \cup {NoSection},
                 k \in UNION {Perms(P) : P \in SUBSET Range(ScanProtos)} } :
        Range(s.keys) = {proto \in Range(ScanProtos) : s[proto].present} }

SectionCount(level) ==
    Cardinality({ tp \in Range(TargetTypes) \X Range(ScanProtos) : level[tp[1]][tp[2]].present })

NetworkTarget == "10.0.0.0/24"

\* the configurations scan is called with: which targets are set, and the sections of
\* the selected level
ScanConfigs ==
    { c \in [ plugin : {"nmap", "nikto"},
              target_ip : {Absent, IpTarget},
              target_domain : {Absent, DomainTarget},
              target_network : {Absent, NetworkTarget},
              level : [Range(TargetTypes) -> TypeSections] ] :
        SectionCount(c.level) <= MaxVariants }

\* f"{target_type}_{proto}"
SourceLabel(target_type, proto) ==
    CASE target_type = "ip" /\ proto = "http" -> "ip_http"
      [] target_type = "ip" /\ proto = "https" -> "ip_https"
      [] target_type = "domain" /\ proto = "http" -> "domain_http"
      [] target_type = "domain" /\ proto = "https" -> "domain_https"
      [] target_type = "network" /\ proto = "http" -> "network_http"
      [] target_type = "network" /\ proto = "https" -> "network_https"

\* an enqueueing that looks at the flags of a section only
EnqueueTasksFlagsOnly(plugin, target, target_type, level) ==
    LET Wanted(proto) == level[target_type][proto].flags
        protos == IF plugin = "nmap" THEN level[target_type].keys ELSE ScanProtos
        Kept == SelectSeq(protos, Wanted)
    IN  IF Falsy(target) THEN << >>
        ELSE [ i \in 1..Len(Kept) |->
                 [ target |-> target, source |-> SourceLabel(target_type, Kept[i]) ] ]

\* the invocations one target type contributes: nmap visits the sections in the key
\* order of the level file (.items()) and skips a section that is disabled or has no
\* flags, nikto visits ["http", "https"] and looks at flags only
EnqueueTasks(plugin, target, target_type, level) ==
    LET Wanted(proto) ==
            LET conf == level[target_type][proto]
            IN  /\ conf.flags
                /\ plugin = "nmap" => conf.enabled
        protos == IF plugin = "nmap" THEN level[target_type].keys ELSE ScanProtos
        Kept == SelectSeq(protos, Wanted)
    IN  IF Falsy(target) THEN << >>
        ELSE [ i \in 1..Len(Kept) |->
                 [ target |-> target, source |-> SourceLabel(target_type, Kept[i]) ] ]

\* tasks and sources as scan builds them: ip, then domain, then (nmap only) network
ScanTasks(c) ==
    EnqueueTasks(c.plugin, c.target_ip, "ip", c.level)
    \o EnqueueTasks(c.plugin, c.target_domain, "domain", c.level)
    \o (IF c.plugin = "nmap"
        THEN EnqueueTasks(c.plugin, c.target_network, "network", c.level)
        ELSE << >>)

InitScan ==
    /\ config \in ScanConfigs
    /\ pc = "scan"
    /\ tasks = << >>
    /\ outcome = "none"
    /\ artifacts = << >>
    /\ index = NoIndex
    /\ temp_files = << >>
    /\ parsed_lists = << >>
    /\ merged = << >>
    /\ pos = 0
    /\ results = << >>
    /\ rows = << >>
    /\ total_added = 0

\* scan up to the gather: every invocation is handed to a thread; run_nmap / run_nikto
\* name their artifact with a fresh temporary file whose suffix carries the label
ScanStart ==
    /\ pc = "scan"
    /\ tasks' = [ i \in 1..Len(ScanTasks(config)) |->
                    [ target |-> ScanTasks(config)[i].target,
                      source |-> ScanTasks(config)[i].source,
                      path |-> [ file |-> i, suffix |-> ScanTasks(config)[i].source ],
                      st |-> "running", output |-> "none" ] ]
    /\ pc' = "scan_gather"
    /\ UNCHANGED <<config, outcome, artifacts, index>>
    /\ UNCHANGED CollectorVars

\* what the tool left at its output path when it exited with code 0
OutputStates == {"full", "empty", "missing"}

\* run_nmap / run_nikto after subprocess.run: a non-zero exit code raises RuntimeError;
\* run_nikto raises as well when its output file is missing or empty, or when json.loads
\* does not accept the content after fix_invalid_json_escapes (loads_ok false: broken
\* JSON, and JSON written on several lines); run_nmap returns the path without looking
\* at the file
InvocationResult(plugin, rc_ok, out, loads_ok) ==
    IF ~rc_ok THEN "failed"
    ELSE IF plugin = "nikto" /\ out # "full" THEN "failed"
    ELSE IF plugin = "nikto" /\ ~loads_ok THEN "failed"
    ELSE "ok"

\* run_nmap / run_nikto ends: it returns its artifact path, or raises RuntimeError.
\* A thread is not cancelled when the gather has already raised.
InvocationExit ==
    \E i \in 1..Len(tasks), rc_ok, loads_ok \in BOOLEAN, out \in OutputStates :
    /\ pc \in {"scan_gather", "scan_exit"}
    /\ tasks[i].st = "running"
    /\ tasks' = [tasks EXCEPT
                    ![i].st = InvocationResult(config.plugin, rc_ok, out, loads_ok),
                    ![i].output = IF rc_ok THEN out ELSE "none"]
    /\ UNCHANGED <<config, pc, outcome, artifacts, index>>
    /\ UNCHANGED CollectorVars

\* nmap: results = await asyncio.gather(*tasks): the first exception of an invocation
\* is raised out of the gather and out of scan; nothing is returned
ScanRaise ==
    /\ pc = "scan_gather"
    /\ config.plugin = "nmap"
    /\ \E i \in 1..Len(tasks) : tasks[i].st = "failed"
    /\ outcome' = "RuntimeError"
    /\ pc' = "scan_exit"
    /\ UNCHANGED <<config, tasks, artifacts, index>>
    /\ UNCHANGED CollectorVars

\* a scan that drops the failed results before it zips the rest with the sources
ScanReturnShifted ==
    /\ pc = "scan_gather"
    /\ \A i \in 1..Len(tasks) : tasks[i].st # "running"
    /\ config.plugin = "nmap" => \A i \in 1..Len(tasks) : tasks[i].st = "ok"
    /\ artifacts' = LET Valid(t) == t.st = "ok"
                        kept == SelectSeq(tasks, Valid)
                    IN  [ i \in 1..Len(kept) |->
                            [plugin |-> config.plugin, path |-> kept[i].path,
                             source |-> tasks[i].source] ]
    /\ outcome' = "returned"
    /\ pc' = "scan_exit"
    /\ UNCHANGED <<config, tasks, index>>
    /\ UNCHANGED CollectorVars

\* the gather completes and scan returns one record per zipped (result, source); nikto
\* gathers with return_exceptions=True and leaves out the results that are exceptions
ScanReturn ==
    /\ pc = "scan_gather"
    /\ \A i \in 1..Len(tasks) : tasks[i].st # "running"
    /\ config.plugin = "nmap" => \A i \in 1..Len(tasks) : tasks[i].st = "ok"
    /\ artifacts' = LET Valid(t) == t.st = "ok"
                        Record(t) == [plugin |-> config.plugin, path |-> t.path, source |-> t.source]
                        kept == SelectSeq(tasks, Valid)
                    IN  [ i \in 1..Len(kept) |-> Record(kept[i]) ]
    /\ outcome' = "returned"
    /\ pc' = "scan_exit"
    /\ UNCHANGED <<config, tasks, index>>
    /\ UNCHANGED CollectorVars

NextScan ==
    \/ ScanStart
    \/ InvocationExit
    \/ ScanRaise
    \/ ScanReturn

SpecScan == InitScan /\ [][NextScan]_vars

\* the labels of the invocations that have succeeded so far
SucceededSources == { tasks[i].source : i \in { j \in 1..Len(tasks) : tasks[j].st = "ok" } }

ReturnedSources == { artifacts[i].source : i \in 1..Len(artifacts) }

\* C10: when scan has ended, all its invocations have ended, and one variant failed
\* while another succeeded, scan has returned the artifact of every variant that
\* succeeded and of no other: a failed variant costs only its own artifact.
C10_OtherVariantsKept ==
    (/\ pc = "scan_exit"
     /\ \A i \in 1..Len(tasks) : tasks[i].st # "running"
     /\ \E i \in 1..Len(tasks) : tasks[i].st = "failed"
     /\ \E i \in 1..Len(tasks) : tasks[i].st = "ok") =>
        /\ outcome = "returned"
        /\ ReturnedSources = SucceededSources

\* C12: an invocation whose tool exited 0 with a missing or empty output is a failed
\* task: no invocation that returned its path as a success, and no artifact scan
\* returned, has a missing or empty output.
C12_NoSilentEmptySuccess ==
    /\ \A i \in 1..Len(tasks) : tasks[i].st = "ok" => tasks[i].output = "full"
    /\ \A a \in 1..Len(artifacts) :
           \A i \in 1..Len(tasks) :
               tasks[i].path = artifacts[a].path => tasks[i].output = "full"


\* C27: for every completion order of the invocations and every subset that fails, each
\* record scan returns pairs an artifact path with the source label of the variant whose
\* invocation produced that path; no label is shifted onto another variant's artifact.
C27_LabelsFollowArtifacts ==
    \A a \in 1..Len(artifacts) :
        \E i \in 1..Len(tasks) :
            /\ tasks[i].path = artifacts[a].path
            /\ tasks[i].st = "ok"
            /\ tasks[i].source = artifacts[a].source
            /\ \A j \in 1..Len(tasks) : tasks[j].path = artifacts[a].path => j = i

\* a nikto scan that returned the artifact of a later variant after an earlier one failed
C27_Witness ==
    /\ config.plugin = "nikto" /\ outcome = "returned"
    /\ \E i, j \in 1..Len(tasks) :
           /\ i < j
           /\ tasks[i].st = "failed" /\ tasks[j].st = "ok"
           /\ \E a \in 1..Len(artifacts) : artifacts[a].path = tasks[j].path

\* the configured value of a target type
TargetValue(c, target_type) ==
    CASE target_type = "ip" -> c.target_ip
      [] target_type = "domain" -> c.target_domain
      [] target_type = "network" -> c.target_network

\* the pair (target type, protocol) calls for a task: the target is configured and the
\* section is present, not disabled and has flags
PairWanted(c, target_type, proto) ==
    /\ ~Falsy(TargetValue(c, target_type))
    /\ c.level[target_type][proto].present
    /\ c.level[target_type][proto].enabled
    /\ c.level[target_type][proto].flags

\* the tasks created for the pair
PairTasks(target_type, proto) ==
    { i \in 1..Len(tasks) : tasks[i].source = SourceLabel(target_type, proto) }

\* C20: nmap.scan creates exactly one task, labelled T_P and aimed at the value of T,
\* for each pair of a configured target type T and a protocol section P present under T
\* with enabled not false and non-empty flags, and no task for any other pair; on
\* success it returns exactly one artifact record per task.
C20_OneTaskPerConfiguredPair ==
    (config.plugin = "nmap" /\ pc # "scan") =>
        /\ \A target_type \in Range(TargetTypes), proto \in Range(ScanProtos) :
               /\ Cardinality(PairTasks(target_type, proto)) =
                      IF PairWanted(config, target_type, proto) THEN 1 ELSE 0
               /\ \A i \in PairTasks(target_type, proto) :
                      tasks[i].target = TargetValue(config, target_type)
        /\ outcome = "returned" =>
               /\ Len(artifacts) = Len(tasks)
               /\ \A i \in 1..Len(tasks) :
                      /\ artifacts[i].plugin = "nmap"
                      /\ artifacts[i].source = tasks[i].source
                      /\ artifacts[i].path = tasks[i].path

\* a returned nmap scan with two tasks next to a disabled section of a configured target
C20_Witness ==
    /\ config.plugin = "nmap" /\ outcome = "returned"
    /\ Len(artifacts) = 2
    /\ \E target_type \in Range(TargetTypes), proto \in Range(ScanProtos) :
           /\ ~Falsy(TargetValue(config, target_type))
           /\ config.level[target_type][proto].present
           /\ ~config.level[target_type][proto].enabled

\* a returned nmap scan with a task next to a section whose target is not configured
C20_WitnessAbsentTarget ==
    /\ config.plugin = "nmap" /\ outcome = "returned"
    /\ Len(artifacts) >= 1
    /\ \E target_type \in Range(TargetTypes), proto \in Range(ScanProtos) :
           /\ Falsy(TargetValue(config, target_type))
           /\ config.level[target_type][proto].enabled
           /\ config.level[target_type][proto].flags


\* ---------------------------------------------------------------------------------
\* the collector on the artifacts of plugins/nikto.py: nikto has no merge_entries, so
\* process_temp_files takes the branch without merge for any number of artifacts
\* ---------------------------------------------------------------------------------

\* nikto.get_important_fields
nikto_get_important_fields == <<"msg">>

\* the vulnerabilities a nikto artifact of the model may hold; a missing "msg" key is
\* read as "-"
VulnHeader == [url |-> "/", method |-> "GET", msg |-> "X-Frame-Options header missing",
               id |-> "999957", references |-> "-"]

VulnAdmin == [VulnHeader EXCEPT !.url = "/admin/", !.msg = "Admin directory found",
                                !.id = "999100"]

VulnNoMsg == [VulnHeader EXCEPT !.msg = "-"]

VulnPool == {VulnHeader, VulnAdmin, VulnNoMsg}

\* the JSON documents of a nikto artifact with at most n vulnerabilities: a list of
\* items, each with its "vulnerabilities" list
NiktoData(n) ==
    UNION {{<<v>> : v \in [1..k -> VulnPool]} : k \in 0..n}
    \cup (IF n >= 2 THEN {<<a, b>> : a \in [1..1 -> VulnPool], b \in [1..1 -> VulnPool]}
          ELSE {})

\* vulnerabilities in one document
VulnCount(data) == SeqSum([i \in 1..Len(data) |-> Len(data[i])])

\* the source labels nikto.scan gives its artifacts in the model
NiktoLabels == {"ip_http", "domain_http", "domain_https"}

\* nikto.parse: the file is read without strip and fix_invalid_json_escapes writes every
\* newline as a backslash and an n, so json.loads fails on a document with a newline
\* before or after it (run_nikto accepted it: it strips the content before the same
\* check) and parse raises RuntimeError; otherwise one finding per vulnerability of
\* every item, in document order, each with the source label of the call
nikto_parse(artifact, source_label) ==
    LET Finding(vuln) == [url |-> vuln.url, method |-> vuln.method, msg |-> vuln.msg,
                          id |-> vuln.id, references |-> vuln.references,
                          source |-> source_label]
        vulns == Flatten(artifact.data)
    IN IF artifact.newline
       THEN [raised |-> TRUE, findings |-> << >>]
       ELSE [raised |-> FALSE, findings |-> [i \in 1..Len(vulns) |-> Finding(vulns[i])]]

\* the branch without merge for one nikto artifact whose parse returned: target, filter
NiktoPassThroughFile(f, ip_target, domain_target) ==
    LET parsed == nikto_parse(f, f.source).findings
        Keep(item) == is_meaningful_entry(item.data, nikto_get_important_fields)
    IN SelectSeq([i \in 1..Len(parsed) |->
                     WithTarget(parsed[i],
                                TargetPassThrough(f.source, ip_target, domain_target))],
                 Keep)

InitNikto ==
    /\ temp_files = << >>
    /\ pc = "group"
    /\ parsed_lists = << >>
    /\ merged = << >>
    /\ pos = 0
    /\ results = << >>
    /\ rows \in StoredRows
    /\ total_added = 0
    /\ config = [target_ip |-> IpTarget, target_domain |-> DomainTarget, db_up |-> TRUE,
                 clear_db |-> FALSE]
    /\ tasks = << >>
    /\ outcome = "none"
    /\ artifacts = << >>
    /\ index = [exists |-> TRUE, paths |-> << >>]

\* process_temp_files, grouping loop: the next nikto record of the artifact index joins
\* the capability's files; newline tells whether the document in the file is preceded
\* or followed by a newline
NiktoGroupFile ==
    /\ pc = "group"
    /\ Len(temp_files) < MaxFiles
    /\ LET VulnsGrouped ==
               SeqSum([i \in 1..Len(temp_files) |-> VulnCount(temp_files[i].data)])
       IN \E l \in NiktoLabels \ LabelsGrouped,
             d \in NiktoData(MaxEntries - VulnsGrouped), nl \in BOOLEAN :
              temp_files' = Append(temp_files, [plugin |-> "nikto", source |-> l,
                                                data |-> d, newline |-> nl])
    /\ UNCHANGED <<pc, parsed_lists, merged, pos, results, rows, total_added, config, tasks,
                   outcome, artifacts, index>>

\* process_temp_files without merge_entries: every artifact parsed, targeted and
\* filtered, in the order of the files; all parse calls sit in one try block, and when
\* one raises the except clause logs it and goes on to the next capability with
\* nothing inserted
NiktoPassThrough ==
    /\ pc = "group"
    /\ temp_files # << >>
    /\ results' = IF \E i \in 1..Len(temp_files) :
                         nikto_parse(temp_files[i], temp_files[i].source).raised
                  THEN << >>
                  ELSE Flatten([i \in 1..Len(temp_files) |->
                               NiktoPassThroughFile(temp_files[i], config.target_ip,
                                                    config.target_domain)])
    /\ pc' = IF results' = << >> THEN "done" ELSE "insert"
    /\ UNCHANGED <<temp_files, parsed_lists, merged, pos, rows, total_added, config, tasks,
                   outcome, artifacts, index>>

\* the insert loop over the nikto results (every statement succeeds): one INSERT per
\* item, the rows already in the table stay
NiktoInsertRows ==
    /\ pc = "insert"
    /\ rows' = rows \o [i \in 1..Len(results) |->
                           [target |-> results[i].target, plugin |-> "nikto",
                            data |-> results[i].data]]
    /\ total_added' = total_added + Len(results)
    /\ pc' = "done"
    /\ UNCHANGED <<temp_files, parsed_lists, merged, pos, results, config, tasks, outcome,
                   artifacts, index>>

NextNikto ==
    \/ NiktoGroupFile
    \/ NiktoPassThrough
    \/ NiktoInsertRows

SpecNikto == InitNikto /\ [][NextNikto]_vars

\* the important field of a nikto finding is "", "-", "0" or null
NiktoBlank(e) == e.msg \in {"", "-", "0", "None"}

\* the artifacts of the run that nikto.parse can read, in artifact order
NiktoParsed ==
    LET Readable(f) == ~nikto_parse(f, f.source).raised
    IN SelectSeq(temp_files, Readable)

\* the parsed findings of all artifacts in artifact order, the blank ones left out
NiktoExpected ==
    LET all == Flatten([i \in 1..Len(NiktoParsed) |->
                           [k \in 1..VulnCount(NiktoParsed[i].data) |->
                               [vuln |-> Flatten(NiktoParsed[i].data)[k],
                                label |-> NiktoParsed[i].source]]])
        NotBlank(x) == ~NiktoBlank(x.vuln)
    IN SelectSeq(all, NotBlank)

\* C21: for nikto (should_merge_entries false) the collector outputs the concatenation,
\* in artifact order, of each artifact's parsed entries with only the empty ones
\* removed: no two entries are combined, no duplicate is dropped, and every entry
\* carries the single source label of its own artifact.
C21_NiktoPassedThroughUnmerged ==
    pc = "done" =>
        /\ Len(InsertedRows) = Len(NiktoExpected)
        /\ \A i \in 1..Len(InsertedRows) :
               /\ InsertedRows[i].data.source = NiktoExpected[i].label
               /\ [f \in DOMAIN NiktoExpected[i].vuln |-> InsertedRows[i].data[f]]
                      = NiktoExpected[i].vuln


\* ---------------------------------------------------------------------------------
\* plugins/nmap.py merge_entries called on entry lists of its own: the entries of
\* port 22 with the script outputs a scan can leave, next to another port
\* ---------------------------------------------------------------------------------

\* PortOpenSsh with a script that printed "None"
PortOpenSshNone == [PortOpenSsh EXCEPT !.raw_output = TextOf("None")]

\* PortOpenSsh with the banner script's output
PortOpenSshBanner == [PortOpenSsh EXCEPT !.raw_output = TextOf("SSH-2.0-OpenSSH_8.2")]

\* PortOpenSsh with a script that printed the lines "null" and "None"
PortOpenSshNullNone == [PortOpenSsh EXCEPT !.raw_output = << <<"null">>, <<"None">> >>]

MergePortPool ==
    {PortOpenSsh, PortOpenSshAlt, PortOpenSshNone, PortOpenSshNullNone, PortOpenSshBanner,
     PortClosedSsh, PortOpenHttp}

InitMerge ==
    /\ temp_files = << >>
    /\ pc = "merge_args"
    /\ parsed_lists = << >>
    /\ merged = << >>
    /\ pos = 0
    /\ results = << >>
    /\ rows = << >>
    /\ total_added = 0
    /\ config = [target_ip |-> IpTarget, target_domain |-> DomainTarget, db_up |-> TRUE]
    /\ tasks = << >>
    /\ outcome = "none"
    /\ artifacts = << >>
    /\ index = NoIndex

\* the next argument of merge_entries(*entry_lists): what parse returned for an
\* artifact with another source label
MergeAddList ==
    /\ pc = "merge_args"
    /\ Len(parsed_lists) < MaxFiles
    /\ Len(MergeInput) < MaxEntries
    /\ \E l \in ScanLabels \ { parsed_lists[i][1].source[1] : i \in 1..Len(parsed_lists) } :
       \E k \in 1..(MaxEntries - Len(MergeInput)) :
       \E ports \in [1..k -> MergePortPool] :
           LET a == [plugin |-> "nmap", source |-> l, hosts |-> <<ports>>,
                     wellformed |-> TRUE]
           IN /\ temp_files' = Append(temp_files, a)
              /\ parsed_lists' = Append(parsed_lists, parse(a, l))
    /\ UNCHANGED <<pc, merged, pos, results, rows, total_added, config, tasks,
                   outcome, artifacts, index>>

\* merge_entries is called: merged = {}
MergeCall ==
    /\ pc = "merge_args"
    /\ parsed_lists # << >>
    /\ pc' = "merge"
    /\ UNCHANGED <<temp_files, parsed_lists, merged, pos, results, rows, total_added,
                   config, tasks, outcome, artifacts, index>>

\* return list(merged.values())
MergeEntriesReturn ==
    /\ pc = "merge"
    /\ pos = Len(MergeInput)
    /\ pc' = "merge_returned"
    /\ UNCHANGED <<temp_files, parsed_lists, merged, pos, results, rows, total_added,
                   config, tasks, outcome, artifacts, index>>

NextMerge ==
    \/ MergeAddList
    \/ MergeCall
    \/ MergeStep
    \/ MergeEntriesReturn

SpecMerge == InitMerge /\ [][NextMerge]_vars

\* a step of merge_entries leaves every key at its place and puts a new key last
KeysKeepPlace ==
    pc = "merge" =>
        /\ Len(merged') >= Len(merged)
        /\ \A i \in 1..Len(merged) : merged'[i].key = merged[i].key

\* C25: merge_entries returns the entries in insertion order of their keys, and it is
\* deterministic: every execution on the same input lists returns the same list,
\* script_output text of merged entries included.
C25_MergeDeterministic ==
    /\ [](pc = "merge_returned" =>
             \A flip \in BOOLEAN : merge_entries(EntryLists, flip) = Output)
    /\ [][KeysKeepPlace]_vars


\* two entries of one merge key that are equal in every important field but
\* script_output, and whose script_output texts differ
DifferOnlyInScriptOutput(e1, e2) ==
    /\ ~is_empty(e1) /\ ~is_empty(e2)
    /\ MergeKey(e1) = MergeKey(e2)
    /\ \A i \in 1..Len(get_important_fields) :
           LET k == get_important_fields[i]
               v1 == FieldStr(e1, k)
               v2 == FieldStr(e2, k)
           IN k # "script_output" =>
                  ((InEmptyList(k, v1) /\ InEmptyList(k, v2)) \/ v1 = v2)
    /\ e1.script_output # e2.script_output

\* the diagnostic lines of a text: its lines other than the blank line and "-"
DiagnosticLines(t) == Range(t) \ {<< >>, <<"-">>}

\* C26: two entries of one merge key that differ only in their script_output are merged
\* into one record, not kept as two, and that record's script_output holds the
\* diagnostic lines of both: the second entry's script output is never lost.
C26_ScriptOutputConcatenated ==
    pc = "merge_returned" =>
        \A i, j \in 1..Len(ParsedEntries) :
            (i < j /\ DifferOnlyInScriptOutput(ParsedEntries[i], ParsedEntries[j])) =>
                \E a \in 1..Len(Output) :
                    /\ Range(ParsedEntries[i].source) \cup Range(ParsedEntries[j].source)
                           \subseteq Range(Output[a].source)
                    /\ DiagnosticLines(ParsedEntries[i].script_output)
                           \cup DiagnosticLines(ParsedEntries[j].script_output)
                           \subseteq Range(Output[a].script_output)


\* ---------------------------------------------------------------------------------
\* plugins/nmap.py parse on an artifact of its own: the XML of a scan of one host or of
\* a network range, with the host elements nmap reported
\* ---------------------------------------------------------------------------------

ParsePortPool == {PortOpenSsh, PortOpenHttp, PortBlank}

\* the documents of h host elements with at most n port elements in all
RECURSIVE HostSeqs(_, _)
HostSeqs(h, n) ==
    IF h = 0 THEN {<< >>}
    ELSE UNION {{<<ports>> \o rest : ports \in [1..k -> ParsePortPool],
                                     rest \in HostSeqs(h - 1, n - k)} : k \in 0..n}

InitParse ==
    /\ \E h \in 1..MaxHosts : \E hosts \in HostSeqs(h, MaxEntries) :
       \E l \in {"ip_tcp", "network_tcp"} :
           temp_files = <<[plugin |-> "nmap", source |-> l, hosts |-> hosts,
                           wellformed |-> TRUE]>>
    /\ pc = "parse"
    /\ parsed_lists = << >>
    /\ merged = << >>
    /\ pos = 0
    /\ results = << >>
    /\ rows = << >>
    /\ total_added = 0
    /\ config = [target_ip |-> IpTarget, target_domain |-> DomainTarget, db_up |-> TRUE]
    /\ tasks = << >>
    /\ outcome = "none"
    /\ artifacts = << >>
    /\ index = NoIndex

\* parse(xml_path, source_label) returns its results
ParseCall ==
    /\ pc = "parse"
    /\ results' = parse(temp_files[1], temp_files[1].source)
    /\ pc' = "parsed"
    /\ UNCHANGED <<temp_files, parsed_lists, merged, pos, rows, total_added, config, tasks,
                   outcome, artifacts, index>>

NextParse == ParseCall

SpecParse == InitParse /\ [][NextParse]_vars

\* the port elements of the artifact, of every host, in document order
AllPortElements == Flatten(temp_files[1].hosts)

\* C29: parse returns exactly one entry for each port element of the artifact, for
\* every host it contains, in document order; every entry's source is the label passed
\* to parse; parsing the artifact again returns an equal list.
C29_OneEntryPerPortElement ==
    pc = "parsed" =>
        /\ Len(results) = Len(AllPortElements)
        /\ \A i \in 1..Len(results) :
               /\ i <= Len(AllPortElements)
               /\ results[i].port = AllPortElements[i].portid
               /\ results[i].state = AllPortElements[i].state
               /\ results[i].source = <<temp_files[1].source>>
        /\ parse(temp_files[1], temp_files[1].source) = results


\* ---------------------------------------------------------------------------------
\* plugins/nmap.py format_script_output on a script output of its own, and again on
\* its own result as postprocess_result and merge_entries apply it
\* ---------------------------------------------------------------------------------

\* the lines of a script output: a banner, TLS version and cipher lines, a certificate
\* line, a CVE line, a plain line, "-", "null" and the blank line
ScriptLinePool ==
    { <<"SSH-2.0-OpenSSH_8.2">>, <<"TLSv1.2:">>, <<"TLS_RSA_WITH_AES">>,
      <<"Subject:", "commonName=example.org">>, <<"CVE-2014-0160">>,
      <<"Apache", "httpd">>, <<"-">>, <<"null">>, << >> }

\* the script outputs of at most MaxLines lines
ScriptTexts == UNION {[1..n -> ScriptLinePool] : n \in 1..MaxLines}

InitFormat ==
    /\ results \in {<<[raw |-> t]>> : t \in ScriptTexts}
    /\ pc = "format"
    /\ temp_files = << >>
    /\ parsed_lists = << >>
    /\ merged = << >>
    /\ pos = 0
    /\ rows = << >>
    /\ total_added = 0
    /\ config = [target_ip |-> IpTarget, target_domain |-> DomainTarget, db_up |-> TRUE]
    /\ tasks = << >>
    /\ outcome = "none"
    /\ artifacts = << >>
    /\ index = NoIndex

\* parse: "script_output": format_script_output(raw_output)
FormatCall ==
    /\ pc = "format"
    /\ results' = Append(results, [raw |-> format_script_output(results[1].raw)])
    /\ pc' = "formatted"
    /\ UNCHANGED <<temp_files, parsed_lists, merged, pos, rows, total_added, config, tasks,
                   outcome, artifacts, index>>

\* format_script_output called on its own result
FormatAgain ==
    /\ pc = "formatted"
    /\ results' = Append(results, [raw |-> format_script_output(results[2].raw)])
    /\ pc' = "formatted_again"
    /\ UNCHANGED <<temp_files, parsed_lists, merged, pos, rows, total_added, config, tasks,
                   outcome, artifacts, index>>

\* postprocess_result on the stored, already formatted field: str(v).strip(), with "",
\* "None" and "null" replaced by "-", then format_script_output
PostprocessResult ==
    /\ pc = "formatted"
    /\ LET val == TextStrip(results[2].raw)
           cleaned == IF val \in {EmptyText, TextOf("None"), TextOf("null")}
                      THEN DashText ELSE val
       IN results' = Append(results, [raw |-> format_script_output(cleaned)])
    /\ pc' = "postprocessed"
    /\ UNCHANGED <<temp_files, parsed_lists, merged, pos, rows, total_added, config, tasks,
                   outcome, artifacts, index>>

NextFormat ==
    \/ FormatCall
    \/ FormatAgain
    \/ PostprocessResult

SpecFormat == InitFormat /\ [][NextFormat]_vars

\* C30: format_script_output is idempotent: formatting an already formatted script
\* output again does not change it, in a call of its own and in postprocess_result
\* (where the field is not one of the empty values that function replaces).
C30_FormatIdempotent ==
    /\ pc = "formatted_again" => results[3].raw = results[2].raw
    /\ (pc = "postprocessed"
          /\ TextStrip(results[2].raw) \notin {EmptyText, TextOf("None"), TextOf("null")}) =>
           results[3].raw = results[2].raw

====
